---------------------------- MODULE Spec2Model ----------------------------
(***************************************************************************)
(* State-machine model of the interactive editors and the configuration    *)
(* loader of LiMe (src/lime/plots_interactive.py, io.py, tools.py).        *)
(*                                                                         *)
(* Strings that the code slices (line labels) are sequences of             *)
(* one-character strings; wavelengths are integers on a pixel grid.        *)
(* Every inspector is a state machine of its own; each has its own         *)
(* specification (SpecLabel, SpecBands, SpecRedshift, SpecCube, SpecCfg)   *)
(* in which the variables of the other inspectors stay at their idle       *)
(* values.                                                                 *)
(***************************************************************************)
EXTENDS Integers, Sequences, FiniteSets, TLC

VARIABLES
    \* ---- circle_band_label driver (pure function) ----
    cb_start,       \* the label the applications started from
    cb_label,       \* the label after cb_n applications
    cb_n,           \* number of applications so far
    \* ---- BandsInspection (one SpectrumCheck object and its files) ----
    session,        \* TRUE while the bands() window is open
    log_address,    \* self._log_address: "None" or the output path
    log,            \* self.log: rows [label, w, wavelength], w = <<w1..w6>>
    activeLines,    \* self._activeLines: sequence of BOOLEAN, one per row
    lineList,       \* self._lineList: the labels of the rows
    line,           \* self.line (<<>> stands for None)
    mask,           \* self.mask: the six wavelengths of the current line
    idx_ax,         \* self._idx_ax: row position, 0 stands for None
    ax,             \* axes under the pointer (self._ax after the enter
                    \* event): 0 none, SliderAx, or the number of a cell
    sweep_mask,     \* self._sweep_mask
    inter_mask,     \* self._inter_mask
    disk,           \* the file at output_log_address: [exists, rows]
    slider,         \* value shown by the mask Slider widget of the window
    log_start,      \* history: self.log as bands() built it for this session
    nodrag,         \* history: no drag edit was made in this session
    ev,             \* history: the last event delivered to a handler
    nEdits,         \* number of drags and button presses so far (bounded)
    nSessions,      \* number of bands() calls so far (bounded)
    \* ---- RedshiftInspection (one SpectrumCheck object and its log file) ----
    z_session,      \* TRUE while the redshift() window is open
    lineSelection,  \* self._lineSelection ("unset" stands for None)
    user_point,     \* self._user_point[0] (0 stands for _user_point None)
    none_value,     \* self._none_value
    unknown_value,  \* self._unknown_value
    z_log,          \* self._log: [has, val], the row of the object
    z_disk,         \* the file at log_address: [exists, has, val]
    z_selected,     \* history: radio button selected in this session
    z_clicked,      \* history: x of the last middle click of this session
    z_ev,           \* history: the last event delivered to a handler
    nZSessions,     \* number of redshift() calls so far (bounded)
    \* ---- CubeInspector (one CubeCheck object and the masks file) ----
    c_session,      \* TRUE while the cube() window is open
    masks_dict,     \* self.masks_dict: sequence of [name, data]
    mask_ext,       \* self.mask_ext
    key_coords,     \* self.key_coords: <<j, i>>
    in_ax,          \* self.in_ax: "None", "ax0", "ax1" or "radio"
    mask_file,      \* self.mask_file
    c_disk,         \* the file given as masks_file: sequence of [name, data]
    hdul_linelog,   \* self.hdul_linelog: 0 stands for None, k for the k-th
                    \* HDUList that fits.open returned
    c_handles,      \* one entry per HDUList opened on the lines log: TRUE
                    \* while its file is open
    c_loaded,       \* history: masks_dict as cube() loaded it
    c_ev,           \* history: the last event delivered to a handler
    \* ---- load_cfg driver (pure function) ----
    cfg_file,       \* the sections of the configuration file
    cfg_objs,       \* the obj_list argument
    cfg_out,        \* [done, ok, cfg]: the result of load_cfg
    \* ---- save_log / load_log driver (one destination path) ----
    lg_table,       \* log_dataframe: the rows of the table to save
    lg_params,      \* the parameters argument: AllParameters or a set of columns
    lg_suffix,      \* log_path.suffix of the destination
    lg_folder,      \* log_path.parent.exists()
    lg_file,        \* the file at the destination: [exists, rows]
    lg_before,      \* history: the file as it was before the last call
    lg_out,         \* [op, raised, info]: the last call and how it ended
    lg_loaded,      \* the table the last load_log returned
    \* ---- int_to_roman (one call, one loop iteration per step) ----
    r_in,           \* the argument num
    r_num,          \* num
    r_i,            \* i (0-based position in VAL_LIST)
    r_roman,        \* roman_num
    r_pc,           \* "idle", "loop" or "done"
    \* ---- label_decomposition driver (pure function) ----
    d_args,         \* [lines, recomb_atom, comp_dict, scalar_output]
    d_out,          \* [done, out]: out is the return value
    \* ---- LineFinder.label_peaks driver (pure function) ----
    p_in,           \* the arguments and the spectrum of the call
    p_out,          \* [done, out, mask_after]: out is the return value
    \* ---- check_previous_mask driver (pure function) ----
    m_in,           \* [input_mask, user_mask, wave_rest]
    m_out,          \* [done, out]: out is the return value
    \* ---- BandsInspection: the redshift slider and the redshift log ----
    zs_session,     \* TRUE while the bands() window is open
    zs_slider,      \* <<>> without a redshift slider, else <<the value it shows>>
    spec_redshift,  \* self._spec.redshift
    z_orig,         \* self._z_orig
    inter_z,        \* self._inter_z
    z_df,           \* self.z_df.loc[object_ref, redshift_column]
    zs_file,        \* the file at redshift_log: [exists, column, val]
    zs_start,       \* history: self._spec.redshift when bands() was called
    zs_ev,          \* history: [op, raised] of the last call or event
    nZsSessions     \* number of bands() calls so far (bounded)

labelVars == <<cb_start, cb_label, cb_n>>
bandsVars == <<session, log_address, log, activeLines, lineList, line, mask,
               idx_ax, ax, sweep_mask, inter_mask, disk, slider, log_start,
               nodrag, ev, nEdits, nSessions>>
redshiftVars == <<z_session, lineSelection, user_point, none_value, unknown_value,
                  z_log, z_disk, z_selected, z_clicked, z_ev, nZSessions>>
cubeVars == <<c_session, masks_dict, mask_ext, key_coords, in_ax, mask_file, c_disk,
              hdul_linelog, c_handles, c_loaded, c_ev>>
cfgVars == <<cfg_file, cfg_objs, cfg_out>>
logVars == <<lg_table, lg_params, lg_suffix, lg_folder, lg_file, lg_before, lg_out,
             lg_loaded>>
romanVars == <<r_in, r_num, r_i, r_roman, r_pc>>
decompVars == <<d_args, d_out>>
peaksVars == <<p_in, p_out>>
maskVars == <<m_in, m_out>>
zsVars == <<zs_session, zs_slider, spec_redshift, z_orig, inter_z, z_df, zs_file, zs_start,
            zs_ev, nZsSessions>>
vars == <<labelVars, bandsVars, redshiftVars, cubeVars, cfgVars, logVars, romanVars,
          decompVars, peaksVars, maskVars, zsVars>>
editorVars == <<labelVars, bandsVars, redshiftVars, cubeVars, cfgVars>>
notLabel == <<bandsVars, redshiftVars, cubeVars, cfgVars, logVars, romanVars,
              decompVars, peaksVars, maskVars, zsVars>>
notBands == <<labelVars, redshiftVars, cubeVars, cfgVars, logVars, romanVars,
              decompVars, peaksVars, maskVars, zsVars>>
notRedshift == <<labelVars, bandsVars, cubeVars, cfgVars, logVars, romanVars,
                 decompVars, peaksVars, maskVars, zsVars>>
notCube == <<labelVars, bandsVars, redshiftVars, cfgVars, logVars, romanVars,
             decompVars, peaksVars, maskVars, zsVars>>
notCfg == <<labelVars, bandsVars, redshiftVars, cubeVars, logVars, romanVars,
            decompVars, peaksVars, maskVars, zsVars>>
notLog == <<editorVars, romanVars, decompVars, peaksVars, maskVars, zsVars>>
notRoman == <<editorVars, logVars, decompVars, peaksVars, maskVars, zsVars>>
notDecomp == <<editorVars, logVars, romanVars, peaksVars, maskVars, zsVars>>
notPeaks == <<editorVars, logVars, romanVars, decompVars, maskVars, zsVars>>
notMask == <<editorVars, logVars, romanVars, decompVars, peaksVars, zsVars>>
notZs == <<editorVars, logVars, romanVars, decompVars, peaksVars, maskVars>>

(***************************************************************************)
(* Bounds of the model.                                                    *)
(***************************************************************************)
MaxLabelLen == 4      \* longest label circle_band_label is started from
MaxApply == 3         \* applications of circle_band_label per run
MaxSlider == 1        \* the mask slider ranges over -MaxSlider..MaxSlider
MaxEdits == 2         \* drags and button presses explored in one run
MaxSessions == 2      \* bands() calls explored in one run
MaxZSessions == 2     \* redshift() calls explored in one run
MaxHandles == 1       \* cube() opens the lines log while fewer handles exist
MaxRoman == 4010      \* largest number int_to_roman is called with
MinRoman == 2         \* int_to_roman is called with numbers down to -MinRoman
NPix == 15            \* pixels of the spectrum label_peaks is called on

(***************************************************************************)
(* Python helpers on sequences.                                            *)
(***************************************************************************)
\* the element of a one-element set; The({e(v) : v \in {x}}) is e(x) with x
\* evaluated once
The(S) == CHOOSE x \in S : TRUE

\* s[-2:]
Last2(s) == IF Len(s) <= 2 THEN s ELSE SubSeq(s, Len(s) - 1, Len(s))

\* s[:-2]
DropLast2(s) == IF Len(s) <= 2 THEN <<>> ELSE SubSeq(s, 1, Len(s) - 2)

SufB == <<"_", "b">>
SufM == <<"_", "m">>

Range(s) == {s[i] : i \in DOMAIN s}

\* np.sum over a boolean array
CountTrue(b) == Cardinality({i \in DOMAIN b : b[i]})

\* the sub-sequence of s at the positions i with keep[i], in order
RECURSIVE SelectRows(_, _)
SelectRows(s, keep) ==
    IF s = <<>> THEN <<>>
    ELSE LET rest == SelectRows(Tail(s), Tail(keep))
         IN  IF Head(keep) THEN <<Head(s)>> \o rest ELSE rest

(***************************************************************************)
(* plots_interactive.circle_band_label                                     *)
(***************************************************************************)
circle_band_label_keep_m(current_label) ==
    LET line_suffix == Last2(current_label)
    IN  IF line_suffix = SufB THEN DropLast2(current_label) \o SufM
        ELSE IF line_suffix = SufM THEN current_label
        ELSE current_label \o SufB

circle_band_label(current_label) ==
    LET line_suffix == Last2(current_label)
    IN  IF line_suffix = SufB THEN DropLast2(current_label) \o SufM
        ELSE IF line_suffix = SufM THEN DropLast2(current_label)
        ELSE current_label \o SufB


(***************************************************************************)
(* Python string helpers (0-based positions, as str.find / str.rfind).     *)
(***************************************************************************)
Find0(s, c) ==
    IF \E i \in DOMAIN s : s[i] = c
    THEN (CHOOSE i \in DOMAIN s : s[i] = c /\ \A j \in 1..(i - 1) : s[j] # c) - 1
    ELSE 0 - 1

RFind0(s, c) ==
    IF \E i \in DOMAIN s : s[i] = c
    THEN (CHOOSE i \in DOMAIN s : s[i] = c /\ \A j \in (i + 1)..Len(s) : s[j] # c) - 1
    ELSE 0 - 1

\* s[a:b] with Python's treatment of negative and too large positions
PySlice(s, a, b) ==
    LET n  == Len(s)
        a1 == IF a < 0 THEN (IF a + n < 0 THEN 0 ELSE a + n) ELSE (IF a > n THEN n ELSE a)
        b1 == IF b < 0 THEN (IF b + n < 0 THEN 0 ELSE b + n) ELSE (IF b > n THEN n ELSE b)
    IN  IF a1 < b1 THEN SubSeq(s, a1 + 1, b1) ELSE <<>>

CountChar(s, c) == Cardinality({i \in DOMAIN s : s[i] = c})

\* s.split(c)
RECURSIVE Split(_, _)
Split(s, c) ==
    The({ IF k < 0 THEN <<s>>
          ELSE The({ <<SubSeq(s, 1, k)>> \o Split(rest, c) :
                     rest \in {SubSeq(s, k + 2, Len(s))} }) :
          k \in {Find0(s, c)} })

DigitVal == [d \in {"0", "1", "2", "3", "4", "5", "6", "7", "8", "9"} |->
               CASE d = "0" -> 0 [] d = "1" -> 1 [] d = "2" -> 2 [] d = "3" -> 3
                 [] d = "4" -> 4 [] d = "5" -> 5 [] d = "6" -> 6 [] d = "7" -> 7
                 [] d = "8" -> 8 [] d = "9" -> 9]

RECURSIVE DigitsValue(_)
DigitsValue(s) ==
    IF s = <<>> THEN 0
    ELSE 10 * DigitsValue(SubSeq(s, 1, Len(s) - 1)) + DigitVal[s[Len(s)]]

\* float(s) for a string of decimal digits; -1 stands for the ValueError that
\* float raises on anything else (no label wavelength is negative)
PyFloat(s) ==
    IF s # <<>> /\ \A i \in DOMAIN s : s[i] \in DOMAIN DigitVal
    THEN DigitsValue(s) ELSE 0 - 1

(***************************************************************************)
(* tools.label_decomposition, default arguments: the wavelength array and  *)
(* the dictionary keys it is built from.  A Python dict is a sequence of   *)
(* key/value records in insertion order.                                   *)
(***************************************************************************)
DictSet(d, k, v) ==
    IF \E i \in DOMAIN d : d[i].key = k
    THEN [i \in DOMAIN d |-> IF d[i].key = k THEN [key |-> k, val |-> v] ELSE d[i]]
    ELSE Append(d, [key |-> k, val |-> v])

\* lines 126, 135-142, 159/167: float(wavelength) of one component
ComponentWave(line_i) ==
    LET kinem_comp_check == CountChar(line_i, "_") # 1
        endsA == line_i # <<>> /\ line_i[Len(line_i)] = "A"
    IN  The({ PyFloat(wavelength) : wavelength \in {
              IF endsA \/ kinem_comp_check
              THEN PySlice(line_i, Find0(line_i, "_") + 1, RFind0(line_i, "A"))
              ELSE PySlice(line_i, Find0(line_i, "_") + 1, Len(line_i)) } })

RECURSIVE DecompComponents(_, _, _, _)
DecompComponents(comps, lineLabel, lineRef, wave_dict) ==
    IF comps = <<>> THEN wave_dict
    ELSE LET line_i == Head(comps)
             mixture_line == Last2(lineLabel) = SufB \/ Last2(lineLabel) = SufM
         IN  The({ DecompComponents(Tail(comps), lineLabel, lineRef, wd) : wd \in {
                   IF mixture_line
                   THEN IF DropLast2(lineLabel) = line_i
                        THEN DictSet(wave_dict, lineRef, ComponentWave(line_i))
                        ELSE wave_dict
                   ELSE DictSet(wave_dict, line_i, ComponentWave(line_i)) } })

RECURSIVE DecompLines(_, _)
DecompLines(lines, wave_dict) ==
    IF lines = <<>> THEN wave_dict
    ELSE LET lineLabel == Head(lines)
             mixture_line == Last2(lineLabel) = SufB \/ Last2(lineLabel) = SufM
         IN  The({ DecompLines(Tail(lines), wd) :
                   wd \in { The({ DecompComponents(comps, lineLabel, lineRef, wave_dict) :
                                  comps \in {Split(lineRef, "-")} }) :
                            lineRef \in {IF mixture_line THEN DropLast2(lineLabel)
                                         ELSE lineLabel} } })

\* [ok, wave]: ok is FALSE when the call raises (repeated labels, line 93, or
\* a wavelength that float() rejects); wave is wavelength_array
label_decomposition(lines) ==
    The({ [ok   |-> /\ ~\E i, j \in DOMAIN lines : i # j /\ lines[i] = lines[j]
                    /\ \A i \in DOMAIN wave_dict : wave_dict[i].val >= 0,
           wave |-> [i \in DOMAIN wave_dict |-> wave_dict[i].val]] :
          wave_dict \in {DecompLines(lines, <<>>)} })

(***************************************************************************)
(* numpy helpers                                                           *)
(***************************************************************************)
\* np.argsort (insertion sort for these sizes: ties keep their order)
RECURSIVE ArgSortFrom(_, _)
ArgSortFrom(a, left) ==
    IF left = {} THEN <<>>
    ELSE The({ <<m>> \o ArgSortFrom(a, left \ {m}) :
               m \in {CHOOSE i \in left :
                         \A j \in left : a[i] < a[j] \/ (a[i] = a[j] /\ i <= j)} })

ArgSort(a) == ArgSortFrom(a, DOMAIN a)

\* the median of a sequence already sorted
MedianSorted(d) ==
    IF Len(d) % 2 = 1 THEN d[(Len(d) + 1) \div 2]
    ELSE (d[Len(d) \div 2] + d[Len(d) \div 2 + 1]) \div 2

\* np.median(np.diff(wave))
MedianDiff(wave) ==
    The({ The({ MedianSorted([k \in DOMAIN o |-> d[o[k]]]) : o \in {ArgSort(d)} }) :
          d \in {[i \in 1..(Len(wave) - 1) |-> wave[i + 1] - wave[i]]} })

(***************************************************************************)
(* The spectrum and the masks the bands editor is started with.            *)
(***************************************************************************)
\* self._spec.wave_rest: the rest-frame wavelength of every pixel
WaveRest == <<0, 20, 40, 60, 80, 100, 120, 140, 160, 180, 200, 220, 240, 260, 280,
             300>>

H1_8A  == <<"H", "1", "_", "8", "A">>
O3_20A == <<"O", "3", "_", "2", "0", "A">>
N2_40A == <<"N", "2", "_", "4", "0", "A">>

Row(label, w) == [label |-> label, w |-> w]

\* the input_mask tables offered to bands(); the last row of the first one
\* lies beyond the red end of the spectrum; the last one holds a blended
\* line and a label that carries two suffixes
InputMasks ==
    { << Row(O3_20A, <<150, 170, 190, 210, 230, 250>>),
         Row(H1_8A, <<20, 40, 60, 100, 120, 140>>),
         Row(N2_40A, <<360, 370, 390, 410, 430, 440>>) >>,
      << Row(H1_8A, <<20, 40, 60, 100, 120, 140>>) >>,
      << Row(H1_8A \o SufB, <<20, 40, 60, 100, 120, 140>>),
         Row(H1_8A \o SufB \o SufM, <<10, 30, 50, 110, 130, 150>>) >> }

LogPath == "bands.txt"

Labels(rows) == [i \in DOMAIN rows |-> rows[i].label]

(***************************************************************************)
(* io.save_log / io.load_log.  A table is a sequence of rows; a row is a   *)
(* record whose field "label" is the index value and whose other fields    *)
(* are the columns: "w" stands for the six columns w1..w6.  A row of a     *)
(* table with the two-level (id, line) index has the field "id" as well.   *)
(* A file is modelled by the table it holds.                               *)
(*                                                                         *)
(* The numbers of the band columns are integers that count tenths of the   *)
(* last decimal place DataFrame.to_string renders.                         *)
(***************************************************************************)
\* line 204: lines_log.to_string() renders a float with display.precision
\* decimal places; one such place is TextStep units
TextStep == 10

\* a float as to_string writes it and read_csv reads it back: the nearest
\* multiple of the rendered place, a tie going to the even digit
to_string_float(v) ==
    LET lo == (v \div TextStep) * TextStep
        r  == v - lo
    IN  IF 2 * r < TextStep THEN lo
        ELSE IF 2 * r > TextStep THEN lo + TextStep
        ELSE IF (lo \div TextStep) % 2 = 0 THEN lo ELSE lo + TextStep

\* lines 204-205 and 126: one cell through to_string and read_csv; labels,
\* ids and the whole-number wavelength column are read back as written
TextCell(f, x) ==
    IF f = "w" THEN [k \in DOMAIN x |-> to_string_float(x[k])] ELSE x

\* lines 644 and 661: to_records(index_dtypes='<U50') keeps 50 characters of
\* a label; the columns keep their 8-byte floats
RecordCell(f, x, flat) == IF f = "label" /\ ~flat THEN PySlice(x, 0, 50) ELSE x

\* isinstance(log_dataframe.index, pd.MultiIndex), line 185
IsMultiIndex(rows) == rows # <<>> /\ "id" \in DOMAIN rows[1] /\ "line" \notin DOMAIN rows[1]

\* log_dataframe.reset_index(), line 186: the levels become the columns id
\* and line, the index becomes 0, 1, 2, ...
reset_index(rows) ==
    [i \in DOMAIN rows |->
        [f \in DOMAIN rows[i] \cup {"line"} |->
            IF f = "label" THEN i - 1
            ELSE IF f = "line" THEN rows[i].label ELSE rows[i][f]]]

\* log.set_index(sample_levels), lines 136-137
set_index(rows) ==
    [i \in DOMAIN rows |->
        [f \in DOMAIN rows[i] \ {"line"} |->
            IF f = "label" THEN rows[i].line ELSE rows[i][f]]]

\* parameters='all' (line 142), and the columns w1..w6 that the bands editor
\* saves (plots_interactive.py, line 141)
AllParameters == {"all"}
BandParameters == {"w"}

\* log[parameters_list], lines 191-193
SliceColumns(rows, parameters) ==
    [i \in DOMAIN rows |-> [f \in {"label"} \cup parameters |-> rows[i][f]]]

NoFile == [exists |-> FALSE, rows |-> <<>>]
TableFile(rows) == [exists |-> TRUE, rows |-> rows]
Saved(file, raised, info) == [file |-> file, raised |-> raised, info |-> info]

\* lines 280-282: the table has no rows
save_log_no_rows_truncates(file) == Saved(TableFile(<<>>), "None", TRUE)

save_log_no_rows(file) == Saved(file, "None", TRUE)

\* lines 278-279: the suffix is none of those above
save_log_other_suffix_as_txt(file, lines_log) == Saved(TableFile(lines_log), "None", FALSE)

save_log_other_suffix(file, lines_log) == Saved(file, "LiMe_Error", FALSE)

\* save_log(log_dataframe, file_address, parameters=...), lines 177-284;
\* file is the destination before the call.  The result is the destination
\* afterwards, the exception raised ("None" for a normal return) and
\* whether the informational message of line 282 was logged.
save_log(log_dataframe, file_type, parameters, folder_exists, file) ==
    IF ~folder_exists THEN Saved(file, "AssertionError", FALSE)
    ELSE IF Len(log_dataframe) = 0 THEN save_log_no_rows(file)
    ELSE The({
        IF parameters # AllParameters /\ ~(parameters \subseteq DOMAIN lg[1])
        THEN Saved(file, "KeyError", FALSE)
        ELSE The({
            IF file_type = ".txt"
            THEN Saved(TableFile([i \in DOMAIN lines_log |->
                           [f \in DOMAIN lines_log[i] |-> TextCell(f, lines_log[i][f])]]),
                       "None", FALSE)
            ELSE IF file_type = ".pdf"
            THEN IF "latex_label" \in DOMAIN lg[1]
                 THEN Saved(TableFile(lines_log), "None", FALSE)
                 ELSE Saved(file, "AttributeError", FALSE)
            ELSE IF file_type \in {".fits", ".asdf"}
            THEN Saved(TableFile([i \in DOMAIN lines_log |->
                           [f \in DOMAIN lines_log[i] |->
                               RecordCell(f, lines_log[i][f], IsMultiIndex(log_dataframe))]]),
                       "None", FALSE)
            ELSE IF file_type \in {".xlsx", ".xls"}
            THEN Saved(TableFile(lines_log), "None", FALSE)
            ELSE save_log_other_suffix(file, lines_log) :
            lines_log \in {IF parameters = AllParameters THEN lg
                           ELSE SliceColumns(lg, parameters)} }) :
        lg \in {IF IsMultiIndex(log_dataframe) THEN reset_index(log_dataframe)
                ELSE log_dataframe} })

\* load_log(file_address), lines 81-139: [raised, log]
load_log(file, file_type) ==
    IF ~file.exists THEN [raised |-> "FileNotFoundError", log |-> <<>>]
    ELSE IF file_type = ".pdf" THEN [raised |-> "UnicodeDecodeError", log |-> <<>>]
    ELSE [raised |-> "None",
          log |-> IF file.rows # <<>> /\ {"id", "line"} \subseteq DOMAIN file.rows[1]
                  THEN set_index(file.rows) ELSE file.rows]


(***************************************************************************)
(* plots_interactive.save_or_clear_log: the file afterwards, and whether   *)
(* the call raised (log_address is None and no line is active: line 144).  *)
(***************************************************************************)
save_or_clear_log(lg, address, active, file) ==
    IF CountTrue(active) = 0
    THEN IF address = "None"
         THEN [disk |-> file, raised |-> TRUE]
         ELSE [disk |-> NoFile, raised |-> FALSE]
    ELSE IF address # "None"
         THEN [disk |-> save_log(SelectRows(lg, active), ".txt", BandParameters,
                                 TRUE, file).file,
               raised |-> FALSE]
         ELSE [disk |-> file, raised |-> FALSE]

(***************************************************************************)
(* plots_interactive.check_previous_mask.  user is [given, rows]: the      *)
(* previously saved log, if there is one.  The result is [ok, log,         *)
(* active]; ok is FALSE when the function raises.                          *)
(***************************************************************************)
Take(rows, idx) == [k \in DOMAIN idx |-> rows[idx[k]]]

\* lines 38-42: sort the joined table by wavelength
cpm_sort(joined, active_lines) ==
    The({ The({ [ok     |-> ld.ok,
                 mask   |-> Take(joined, idx_array),
                 active |-> Take(active_lines, idx_array)] :
                idx_array \in {ArgSort(ld.wave)} }) :
          ld \in {label_decomposition(Labels(joined))} })

\* lines 25-42: the saved log and the rows of the input mask it lacks
cpm_user(input_mask, rows) ==
    LET ulab       == Labels(rows)
        comb_lines == {DropLast2(ulab[i]) : i \in {j \in DOMAIN ulab :
                           Last2(ulab[j]) = SufB \/ Last2(ulab[j]) = SufM}}
    IN  The({ The({ cpm_sort(rows \o noMatch,
                             [i \in 1..(Len(rows) + Len(noMatch)) |-> i <= Len(rows)]) :
                    noMatch \in {SelectRows(crop,
                        [i \in DOMAIN crop |-> crop[i].label \notin Range(ulab)])} }) :
              crop \in {SelectRows(input_mask,
                  [i \in DOMAIN input_mask |-> input_mask[i].label \notin comb_lines])} })

\* lines 49-78: trim to the wavelength range and add the wavelength column
cpm_trim(st, wave_rest) ==
    LET w_min     == wave_rest[1]
        w_max     == wave_rest[Len(wave_rest)]
        rows_cont == [i \in DOMAIN st.mask |->
                         st.mask[i].w[2] > w_min /\ st.mask[i].w[5] < w_max]
        row_line  == [i \in DOMAIN st.mask |->
                         st.mask[i].w[3] > w_min /\ st.mask[i].w[4] < w_max]
        \* lines 59-68: range_lines[0] and range_lines[1] are read
        ok2       == CountTrue(rows_cont) = CountTrue(row_line) \/ CountTrue(row_line) >= 2
    IN  The({ The({ [ok     |-> st.ok /\ ok2 /\ ld.ok /\ Len(ld.wave) = Len(mask2),
                     log    |-> [i \in DOMAIN mask2 |->
                                   [label |-> mask2[i].label, w |-> mask2[i].w,
                                    wavelength |-> IF i \in DOMAIN ld.wave
                                                   THEN ld.wave[i] ELSE 0]],
                     active |-> SelectRows(st.active, rows_cont)] :
                    ld \in {label_decomposition(Labels(mask2))} }) :
              mask2 \in {SelectRows(st.mask, rows_cont)} })

check_previous_mask(input_mask, user, wave_rest) ==
    The({ cpm_trim(st, wave_rest) :
          st \in { IF user.given THEN cpm_user(input_mask, user.rows)
                   ELSE [ok |-> TRUE, mask |-> input_mask,
                         active |-> [i \in DOMAIN input_mask |-> FALSE]] } })

(***************************************************************************)
(* BandsInspection: bands() and the handlers it connects.                  *)
(***************************************************************************)
SliderAx == 0 - 1
\* the spans a SpanSelector reports (vmin <= vmax); the pointer is not
\* bound to the places a text file renders: 51 lies between two of them
Drags == {<<51, 70>>, <<10, 30>>, <<30, 50>>, <<70, 130>>, <<130, 150>>, <<10, 150>>,
          <<50, 50>>}
Buttons == {1, 2, 3}
\* op: the handler; a, b: its arguments; saved: it called save_or_clear_log;
\* raised: it ended with an exception
Event(op, a, b, saved, raised) ==
    [op |-> op, a |-> a, b |-> b, saved |-> saved, raised |-> raised]

\* state after SpectrumCheck.__init__ (lines 161-184); no file on disk
InitBands ==
    /\ session = FALSE
    /\ log_address = "None"
    /\ log = <<>>
    /\ activeLines = <<>>
    /\ lineList = <<>>
    /\ line = <<>>
    /\ mask = <<>>
    /\ idx_ax = 0
    /\ ax = 0
    /\ sweep_mask = 0
    /\ inter_mask = 0
    /\ disk = NoFile
    /\ slider = 0
    /\ log_start = <<>>
    /\ nodrag = TRUE
    /\ ev = Event("init", 0, 0, FALSE, FALSE)
    /\ nEdits = 0
    /\ nSessions = 0

\* bands(input_mask, output_log_address=...), lines 255-372
Bands(input_mask, output_log_address) ==
    /\ ~session
    /\ nSessions < MaxSessions
    /\ nSessions' = nSessions + 1
    /\ log_address' = output_log_address
    /\ \E parent_mask \in {IF output_log_address # "None" /\ disk.exists
                            THEN [given |-> TRUE, rows |-> load_log(disk, ".txt").log]
                            ELSE [given |-> FALSE, rows |-> <<>>]} :
       \E r \in {check_previous_mask(input_mask, parent_mask, WaveRest)} :
           IF ~r.ok
           THEN /\ ev' = Event("bands", 0, 0, FALSE, TRUE)
                /\ UNCHANGED <<session, log, activeLines, lineList, line, mask,
                               inter_mask, slider, log_start, nodrag>>
           ELSE /\ log' = r.log
                /\ activeLines' = r.active
                /\ ev' = Event("bands", 0, 0, FALSE, FALSE)
                /\ IF Len(r.log) > 0
                   THEN /\ lineList' = Labels(r.log)
                        /\ line' = r.log[Len(r.log)].label
                        /\ mask' = r.log[Len(r.log)].w
                        /\ inter_mask' = MedianDiff(WaveRest)
                        /\ slider' = 0
                        /\ session' = TRUE
                        /\ log_start' = r.log
                        /\ nodrag' = TRUE
                   ELSE UNCHANGED <<session, lineList, line, mask, inter_mask,
                                    slider, log_start, nodrag>>
    /\ ax' = 0
    /\ UNCHANGED <<idx_ax, sweep_mask, disk, nEdits>>
    /\ UNCHANGED notBands

\* two rows carry the label.  np.where and .loc then return both rows and
\* the handlers of lines 421-506 work on a two-row selection; the editor is
\* followed in the cells whose label one row carries.
Repeated(list, label) == Cardinality({i \in DOMAIN list : list[i] = label}) > 1

\* the position of a label in self._lineList (np.where, line 475)
Where(list, label) ==
    IF \E i \in DOMAIN list : list[i] = label
    THEN CHOOSE i \in DOMAIN list : list[i] = label
    ELSE 0

\* _on_enter_axes_MI, lines 469-477; the title of cell a is the label that
\* _plot_line_BI drew there last
EnterAxes(a) ==
    /\ session
    /\ a # ax
    /\ a # SliderAx => ~Repeated(lineList, lineList[a])
    /\ ax' = a
    /\ IF a # SliderAx
       THEN /\ line' = lineList[a]
            /\ idx_ax' = Where(lineList, lineList[a])
            /\ mask' = log[a].w
       ELSE UNCHANGED <<line, idx_ax, mask>>
    /\ ev' = Event("enter", a, 0, FALSE, FALSE)
    /\ UNCHANGED <<session, log_address, log, activeLines, lineList, sweep_mask,
                   inter_mask, disk, slider, log_start, nodrag, nEdits,
                   nSessions>>
    /\ UNCHANGED notBands

select_case_red_w3(m, w_low, w_high) ==
    IF w_low > m[2] /\ w_high < m[5] THEN "core"
    ELSE IF w_low < m[3] /\ w_high < m[3] THEN "blue"
    ELSE IF w_low > m[3] /\ w_high > m[3] THEN "red"
    ELSE IF w_low < m[1] /\ w_high > m[6] THEN "removed"
    ELSE "weird"

select_case_red_w6(m, w_low, w_high) ==
    IF w_low > m[2] /\ w_high < m[5] THEN "core"
    ELSE IF w_low < m[3] /\ w_high < m[3] THEN "blue"
    ELSE IF w_low > m[6] /\ w_high > m[6] THEN "red"
    ELSE IF w_low < m[1] /\ w_high > m[6] THEN "removed"
    ELSE "weird"

\* the branch of _on_select_MI (lines 431-454) a selection falls in
select_case(m, w_low, w_high) ==
    IF w_low > m[2] /\ w_high < m[5] THEN "core"
    ELSE IF w_low < m[3] /\ w_high < m[3] THEN "blue"
    ELSE IF w_low > m[4] /\ w_high > m[4] THEN "red"
    ELSE IF w_low < m[1] /\ w_high > m[6] THEN "removed"
    ELSE "weird"

\* self.mask after lines 431-454
select_mask_core_w2(m, w_low, w_high) ==
    LET c == select_case(m, w_low, w_high)
    IN  IF c = "core" THEN [m EXCEPT ![2] = w_low, ![4] = w_high]
        ELSE IF c = "blue" THEN [m EXCEPT ![1] = w_low, ![2] = w_high]
        ELSE IF c = "red" THEN [m EXCEPT ![5] = w_low, ![6] = w_high]
        ELSE m

select_mask_removed_clears(m, w_low, w_high) ==
    LET c == select_case(m, w_low, w_high)
    IN  IF c = "core" THEN [m EXCEPT ![3] = w_low, ![4] = w_high]
        ELSE IF c = "blue" THEN [m EXCEPT ![1] = w_low, ![2] = w_high]
        ELSE IF c = "red" THEN [m EXCEPT ![5] = w_low, ![6] = w_high]
        ELSE IF c = "removed" THEN [m EXCEPT ![3] = w_low, ![4] = w_high]
        ELSE m

select_mask(m, w_low, w_high) ==
    LET c == select_case(m, w_low, w_high)
    IN  IF c = "core" THEN [m EXCEPT ![3] = w_low, ![4] = w_high]
        ELSE IF c = "blue" THEN [m EXCEPT ![1] = w_low, ![2] = w_high]
        ELSE IF c = "red" THEN [m EXCEPT ![5] = w_low, ![6] = w_high]
        ELSE m

\* self.log.loc[label, 'w1':'w6'] = m
SetBand(lg, label, m) ==
    [i \in DOMAIN lg |-> IF lg[i].label = label THEN [lg[i] EXCEPT !.w = m] ELSE lg[i]]

\* _on_select_MI(w_low, w_high), lines 421-467: the SpanSelector of the cell
\* under the pointer reports a span
Select(w_low, w_high) ==
    /\ session
    /\ ax \in DOMAIN log
    /\ ~Repeated(lineList, line)
    /\ nEdits < MaxEdits
    /\ nEdits' = nEdits + 1
    /\ IF w_low # w_high
       THEN \E m \in {select_mask(mask, w_low, w_high)} :
            \E lg \in {SetBand(log, line, m)} :
            \E s \in {save_or_clear_log(lg, log_address, activeLines, disk)} :
                /\ mask' = m
                /\ log' = lg
                /\ disk' = s.disk
                /\ nodrag' = FALSE
                /\ ev' = Event("select", w_low, w_high, TRUE, s.raised)
       ELSE /\ ev' = Event("select", w_low, w_high, FALSE, FALSE)
            /\ UNCHANGED <<mask, log, disk, nodrag>>
    /\ UNCHANGED <<session, log_address, activeLines, lineList, line, idx_ax, ax,
                   sweep_mask, inter_mask, slider, log_start, nSessions>>
    /\ UNCHANGED notBands

\* self.log.rename(index={old: new})
Rename(lg, old, new) ==
    [i \in DOMAIN lg |-> IF lg[i].label = old THEN [lg[i] EXCEPT !.label = new] ELSE lg[i]]

\* _on_click_MI(event), lines 479-506.  The press is on a cell, or on the
\* slider axes after a cell was entered (self._idx_ax is a row position).
Click(button) ==
    /\ session
    /\ ax # 0
    /\ idx_ax \in DOMAIN lineList
    /\ ~Repeated(lineList, lineList[idx_ax])
    /\ nEdits < MaxEdits
    /\ nEdits' = nEdits + 1
    /\ IF button \in {2, 3}
       THEN \E current_label \in {lineList[idx_ax]} :
            \E new_label \in {circle_band_label(current_label)} :
            \E lg \in {IF button = 2 THEN Rename(log, current_label, new_label) ELSE log} :
            \E act \in {IF button = 3
                        THEN [activeLines EXCEPT ![idx_ax] = ~activeLines[idx_ax]]
                        ELSE activeLines} :
            \E s \in {save_or_clear_log(lg, log_address, act, disk)} :
                /\ log' = lg
                /\ activeLines' = act
                /\ line' = IF button = 2 THEN new_label ELSE line
                /\ lineList' = IF button = 2 THEN Labels(lg) ELSE lineList
                /\ disk' = s.disk
                /\ ev' = Event("click", button, idx_ax, TRUE, s.raised)
       ELSE /\ ev' = Event("click", button, idx_ax, FALSE, FALSE)
            /\ UNCHANGED <<log, activeLines, line, lineList, disk>>
    /\ UNCHANGED <<nodrag, session, log_address, mask, idx_ax, ax, sweep_mask, inter_mask,
                   slider, log_start, nSessions>>
    /\ UNCHANGED notBands

\* the wavelengths of every row moved by d
Shift(lg, d) ==
    [i \in DOMAIN lg |-> [lg[i] EXCEPT !.w = [k \in DOMAIN lg[i].w |-> lg[i].w[k] + d]]]

\* _on_mask_slider_MI(val), lines 526-546: the Slider widget reports a new
\* value while the pointer is on the slider axes
MaskSlider(val) ==
    /\ session
    /\ ax = SliderAx
    /\ val # slider
    /\ slider' = val
    /\ \E new_sweep \in {val * inter_mask} :
       \E mask_matrix \in {Shift(log, 0 - sweep_mask)} :
       \E lg \in {Shift(mask_matrix, new_sweep)} :
       \E s \in {save_or_clear_log(lg, log_address, activeLines, disk)} :
           /\ sweep_mask' = new_sweep
           /\ log' = lg
           /\ disk' = s.disk
           /\ ev' = Event("slider", val, 0, TRUE, s.raised)
    /\ UNCHANGED <<session, log_address, activeLines, lineList, line, mask, idx_ax,
                   ax, inter_mask, log_start, nodrag, nEdits, nSessions>>
    /\ UNCHANGED notBands

\* the window is closed and bands() returns (line 372)
CloseWindow ==
    /\ session
    /\ session' = FALSE
    /\ ev' = Event("close", 0, 0, FALSE, FALSE)
    /\ UNCHANGED <<log_address, log, activeLines, lineList, line, mask, idx_ax, ax,
                   sweep_mask, inter_mask, disk, slider, log_start, nodrag, nEdits, nSessions>>
    /\ UNCHANGED notBands

NextBands ==
    \/ \E input_mask \in InputMasks, addr \in {"None", LogPath} : Bands(input_mask, addr)
    \/ \E a \in (DOMAIN log) \cup {SliderAx} : EnterAxes(a)
    \/ \E d \in Drags : Select(d[1], d[2])
    \/ \E button \in Buttons : Click(button)
    \/ \E val \in (0 - MaxSlider)..MaxSlider : MaskSlider(val)
    \/ CloseWindow

(***************************************************************************)
(* circle_band_label applied to every short label.                         *)
(***************************************************************************)
LabelChars == {"A", "_", "b", "m"}
LabelSet == UNION {[1..n -> LabelChars] : n \in 1..MaxLabelLen}

\* the driver at rest, and started on a label
IdleLabel ==
    /\ cb_start = <<"A">>
    /\ cb_label = <<"A">>
    /\ cb_n = 0

StartLabel ==
    /\ cb_start \in LabelSet
    /\ cb_label = cb_start
    /\ cb_n = 0

CircleStep ==
    /\ cb_n < MaxApply
    /\ cb_label' = circle_band_label(cb_label)
    /\ cb_n' = cb_n + 1
    /\ UNCHANGED cb_start
    /\ UNCHANGED notLabel

NextLabel == CircleStep

(***************************************************************************)
(* Properties of the bands editor and of circle_band_label.                *)
(***************************************************************************)
\* the rows of self.log that self.line labels
LineRows == {i \in DOMAIN log : log[i].label = line}

\* self.line labels one row and self.mask is that row's band
CurrentBand == Cardinality(LineRows) = 1 /\ \A i \in LineRows : log[i].w = mask

Ordered(m) == \A k \in 1..5 : m[k] < m[k + 1]

\* the step is a drag with distinct endpoints on the current line
DragStep == ev'.op = "select" /\ ev'.a < ev'.b /\ CurrentBand

\* the step gives the current line the band m and changes no label and no
\* wavelength of another line
BandBecomes(m) ==
    /\ DOMAIN log' = DOMAIN log
    /\ \A i \in DOMAIN log :
          /\ log'[i].label = log[i].label
          /\ log'[i].w = IF i \in LineRows THEN m ELSE log[i].w

\* the last event was a mutating action that completed
Mutated ==
    /\ ~ev.raised
    /\ \/ ev.op = "select" /\ ev.a # ev.b
       \/ ev.op = "click" /\ ev.a \in {2, 3}
       \/ ev.op = "slider"

ActiveRows == SelectRows(log, activeLines)

\* C1: in a session with an output_log_address, after every completed
\* mutating action the file exists iff some line is active, and then holds
\* exactly the active rows with their current labels and w1..w6.
C1_FileHoldsActiveRows ==
    (session /\ log_address = LogPath /\ Mutated) =>
        /\ disk.exists <=> (\E i \in DOMAIN activeLines : activeLines[i])
        /\ disk.exists =>
              /\ Len(disk.rows) = Len(ActiveRows)
              /\ \A i \in DOMAIN disk.rows :
                    /\ DOMAIN disk.rows[i] = {"label", "w"}
                    /\ disk.rows[i].label = ActiveRows[i].label
                    /\ disk.rows[i].w = ActiveRows[i].w

\* C2: on an ordered band, a drag with w2 < low < high < w5 sets w3 := low
\* and w4 := high and changes nothing else of that line or of any other.
C2_CoreDragSetsW3W4 ==
    [][(DragStep /\ Ordered(mask) /\ mask[2] < ev'.a /\ ev'.b < mask[5]) =>
          BandBecomes(<<mask[1], mask[2], ev'.a, ev'.b, mask[5], mask[6]>>)]_vars

C2_Witness ==
    /\ ev.op = "select" /\ ev.a < ev.b
    /\ \E i \in DOMAIN log :
          /\ log[i].label = line
          /\ log[i].w[2] < ev.a /\ ev.b < log[i].w[5]
          /\ log[i].w[3] = ev.a /\ log[i].w[4] = ev.b

\* C3 as stated: on an ordered band, a drag that is not strictly between w2
\* and w5 becomes the blue continuum when entirely below w2 and the red
\* continuum when entirely above w3.
C3_RedAboveW3 ==
    [][(DragStep /\ Ordered(mask) /\ ~(mask[2] < ev'.a /\ ev'.b < mask[5])) =>
          /\ ev'.b < mask[2] =>
                BandBecomes(<<ev'.a, ev'.b, mask[3], mask[4], mask[5], mask[6]>>)
          /\ ev'.a > mask[3] =>
                BandBecomes(<<mask[1], mask[2], mask[3], mask[4], ev'.a, ev'.b>>)]_vars

\* C3 amended: ... and the red continuum when entirely above w4.
C3_RedAboveW4 ==
    [][(DragStep /\ Ordered(mask) /\ ~(mask[2] < ev'.a /\ ev'.b < mask[5])) =>
          /\ ev'.b < mask[2] =>
                BandBecomes(<<ev'.a, ev'.b, mask[3], mask[4], mask[5], mask[6]>>)
          /\ ev'.a > mask[4] =>
                BandBecomes(<<mask[1], mask[2], mask[3], mask[4], ev'.a, ev'.b>>)]_vars

C3_Witness ==
    /\ ev.op = "select" /\ ev.a < ev.b
    /\ \E i \in DOMAIN log :
          /\ log[i].label = line
          /\ log[i].w[4] < ev.a
          /\ log[i].w[5] = ev.a /\ log[i].w[6] = ev.b

\* the step leaves the band, the label and the active flag of every line alone
BandsKept == log' = log /\ activeLines' = activeLines /\ lineList' = lineList /\ line' = line

\* a selection with equal endpoints changes no state and saves nothing
ClickKeepsAll ==
    (ev'.op = "select" /\ ev'.a = ev'.b) =>
        /\ ~ev'.saved
        /\ UNCHANGED <<session, log_address, log, activeLines, lineList, line, mask,
                       idx_ax, ax, sweep_mask, inter_mask, disk, slider>>

\* C4 as stated: a drag over the whole band, and any drag that is neither
\* core (strictly between w2 and w5), nor blue (entirely below w2), nor red
\* (entirely above w3), leaves bands, label and active flag unchanged; equal
\* endpoints change no state and trigger no save.
C4_UnmatchedAsStated ==
    [][/\ (DragStep /\ (\/ ev'.a < mask[1] /\ ev'.b > mask[6]
                        \/ /\ ~(mask[2] < ev'.a /\ ev'.b < mask[5])
                           /\ ~(ev'.b < mask[2])
                           /\ ~(ev'.a > mask[3]))) => BandsKept
       /\ ClickKeepsAll]_vars

\* C4 amended: the rules are those the editor applies: core (w2 < low and
\* high < w5), blue (low and high below w3), red (low and high above w4).
C4_UnmatchedKeepsBand ==
    [][/\ (DragStep /\ (\/ ev'.a < mask[1] /\ ev'.b > mask[6]
                        \/ /\ ~(mask[2] < ev'.a /\ ev'.b < mask[5])
                           /\ ~(ev'.a < mask[3] /\ ev'.b < mask[3])
                           /\ ~(ev'.a > mask[4] /\ ev'.b > mask[4]))) => BandsKept
       /\ ClickKeepsAll]_vars

C4_Witness ==
    /\ ev.op = "select" /\ ev.a < ev.b
    /\ \E i \in DOMAIN log :
          /\ log[i].label = line
          /\ ev.a < log[i].w[1] /\ ev.b > log[i].w[6]

\* a label that does not end in _b or _m
Bare(label) == Last2(label) # SufB /\ Last2(label) # SufM

\* C5: from a label X that does not end in _b or _m, circle_band_label gives
\* X_b, then X_m, then X again; one or two applications never give X.
C5_ThreeCycle ==
    Bare(cb_start) =>
        /\ cb_n = 1 => cb_label = cb_start \o SufB /\ cb_label # cb_start
        /\ cb_n = 2 => cb_label = cb_start \o SufM /\ cb_label # cb_start
        /\ cb_n = 3 => cb_label = cb_start

C5_Witness == Bare(cb_start) /\ Len(cb_start) = MaxLabelLen /\ cb_n = 3 /\ cb_label = cb_start

\* C6: with no drag edit since the session started, every wavelength equals
\* its value at the start of the session plus the slider value times the
\* median rest-frame sample spacing.
C6_SliderOffset ==
    (session /\ nodrag) =>
        \A i \in DOMAIN log : \A k \in 1..6 :
            log[i].w[k] = log_start[i].w[k] + slider * MedianDiff(WaveRest)

\* the bands of a log, without the labels
Waves(lg) == [i \in DOMAIN lg |-> lg[i].w]

\* C26: in a second session on the same object, the first mask-slider move
\* to value v shifts every band by v times the median sample spacing from
\* the bands loaded at the start of that session, whatever slider value the
\* session before ended on.
C26_SecondSessionFromZero ==
    [][(/\ session /\ nSessions >= 2
        /\ slider = 0 /\ nodrag /\ Waves(log) = Waves(log_start)
        /\ ev'.op = "slider")
       => \A i \in DOMAIN log : \A k \in 1..6 :
             log'[i].w[k] = log_start[i].w[k] + ev'.a * MedianDiff(WaveRest)]_vars

\* no label occurs twice
Distinct(labels) == \A i, j \in DOMAIN labels : i # j => labels[i] # labels[j]

\* C21: a session that starts with pairwise distinct labels keeps the
\* labels of the log in memory and of the saved file pairwise distinct
\* through every sequence of label cycles, toggles, drags and slider moves.
C21_LabelsStayDistinct ==
    (session /\ Distinct(Labels(log_start))) =>
        /\ Distinct(Labels(log))
        /\ disk.exists => Distinct(Labels(disk.rows))

\* C28: in a session started without output_log_address no drag-select,
\* label cycle, active toggle or mask-slider move raises an error, whatever
\* the number of active lines, zero included; nothing is written.
C28_NoAddressNoError ==
    [][(session /\ log_address = "None" /\ ev'.op \in {"select", "click", "slider"})
       => (~ev'.raised /\ disk' = disk)]_vars

AllOrdered(lg) == \A i \in DOMAIN lg : Ordered(lg[i].w)

\* C20: from bands that all have w1 < w2 < w3 < w4 < w5 < w6, every drag
\* selection (low < high) and every mask-slider move leaves the band of
\* every line with w1 < w2 < w3 < w4 < w5 < w6; so does any sequence of them.
C20_BandsStayOrdered ==
    [][(ev'.op \in {"select", "slider"} /\ AllOrdered(log)) => AllOrdered(log')]_vars

C20_Witness ==
    /\ session
    /\ slider # 0
    /\ ev.op = "select" /\ ev.a < ev.b
    /\ \E i \in DOMAIN log :
          /\ log[i].label = line
          /\ log[i].w[5] = ev.a /\ log[i].w[6] = ev.b
          /\ Ordered(log[i].w)

(***************************************************************************)
(* RedshiftInspection: redshift() and the handlers it connects.            *)
(* A redshift is NaN or an exact fraction num/den.                         *)
(***************************************************************************)
RECURSIVE Gcd(_, _)
Gcd(a, b) == IF b = 0 THEN a ELSE Gcd(b, a % b)

Abs(n) == IF n < 0 THEN 0 - n ELSE n

\* the float n/d (d > 0)
Rat(n, d) ==
    The({ [nan |-> FALSE, num |-> n \div g, den |-> d \div g] : g \in {Gcd(Abs(n), d)} })

NaN == [nan |-> TRUE, num |-> 0, den |-> 1]

\* the values offered as none_value; unknow_value keeps its default 0.0
NoneValues == {NaN, Rat(0 - 1, 1)}
UnknownDefault == Rat(0, 1)

\* self._latex_array and self._waves_array after the sort of lines 641-646
LatexArray == <<"$H\\beta$", "$[OIII]$">>
WavesArray == <<4, 5>>

\* the labels of the RadioButtons widget (line 668)
buttons_list == <<"$None$">> \o LatexArray \o <<"$Unknown$">>

\* event.xdata of the presses explored
ClickXs == {6, 10}

ZEvent(op, button) == [op |-> op, button |-> button]

\* state after SpectrumCheck.__init__ (lines 551-570); no log file on disk
InitRedshift ==
    /\ z_session = FALSE
    /\ lineSelection = "unset"
    /\ user_point = 0
    /\ none_value = NaN
    /\ unknown_value = UnknownDefault
    /\ z_log = [has |-> FALSE, val |-> NaN]
    /\ z_disk = [exists |-> FALSE, has |-> FALSE, val |-> NaN]
    /\ z_selected = "unset"
    /\ z_clicked = 0
    /\ z_ev = ZEvent("init", 0)
    /\ nZSessions = 0

\* the value _compute_redshift() stores when redshift_output is None
\* (lines 756-781)
compute_redshift(selection, point, nv, uv) ==
    IF selection # "unset"
    THEN IF selection = "$None$" THEN nv
         ELSE IF selection = "$Unknown$" THEN uv
         ELSE IF point # 0
              THEN The({ Rat(point - ref_wave, ref_wave) : ref_wave \in
                         {WavesArray[CHOOSE i \in DOMAIN LatexArray : LatexArray[i] = selection]} })
              ELSE nv
    ELSE nv

\* lines 784-785: the value goes to the table and the table to the file
StoreRedshift(val) ==
    /\ z_log' = [has |-> TRUE, val |-> val]
    /\ z_disk' = [exists |-> TRUE, has |-> TRUE, val |-> val]

\* redshift(obj_reference, reference_lines, log_address, none_value=nv),
\* lines 572-690
Redshift(nv) ==
    /\ ~z_session
    /\ nZSessions < MaxZSessions
    /\ nZSessions' = nZSessions + 1
    /\ none_value' = nv
    /\ unknown_value' = UnknownDefault
    /\ \E redshift_pred \in {IF z_disk.exists /\ z_disk.has THEN z_disk.val ELSE nv} :
          StoreRedshift(redshift_pred)
    /\ z_session' = TRUE
    /\ z_selected' = "unset"
    /\ z_clicked' = 0
    /\ z_ev' = ZEvent("redshift", 0)
    /\ UNCHANGED <<lineSelection, user_point>>
    /\ UNCHANGED notRedshift

\* _button_ZI(line_selection), lines 789-800
ButtonZI(line_selection) ==
    /\ z_session
    /\ lineSelection' = line_selection
    /\ StoreRedshift(compute_redshift(line_selection, user_point, none_value, unknown_value))
    /\ z_selected' = line_selection
    /\ z_ev' = ZEvent("radio", 0)
    /\ UNCHANGED <<z_session, user_point, none_value, unknown_value, z_clicked, nZSessions>>
    /\ UNCHANGED notRedshift

\* _on_click_ZI(event), lines 802-814: a press on the plot at xdata = x
ClickZI(button, x) ==
    /\ z_session
    /\ IF button = 2
       THEN /\ user_point' = x
            /\ StoreRedshift(compute_redshift(lineSelection, x, none_value, unknown_value))
            /\ z_clicked' = x
       ELSE UNCHANGED <<user_point, z_log, z_disk, z_clicked>>
    /\ z_ev' = ZEvent("click", button)
    /\ UNCHANGED <<z_session, lineSelection, none_value, unknown_value, z_selected,
                   nZSessions>>
    /\ UNCHANGED notRedshift

\* the window is closed and redshift() returns
CloseZ ==
    /\ z_session
    /\ z_session' = FALSE
    /\ z_ev' = ZEvent("close", 0)
    /\ UNCHANGED <<lineSelection, user_point, none_value, unknown_value, z_log, z_disk,
                   z_selected, z_clicked, nZSessions>>
    /\ UNCHANGED notRedshift

NextRedshift ==
    \/ \E nv \in NoneValues : Redshift(nv)
    \/ \E line_selection \in Range(buttons_list) : ButtonZI(line_selection)
    \/ \E button \in Buttons, x \in ClickXs : ClickZI(button, x)
    \/ CloseZ

\* the rest wavelength of a reference line
RestWave(latex) == WavesArray[CHOOSE i \in DOMAIN LatexArray : LatexArray[i] = latex]

\* the redshift the radio button and the middle click of this session call for
ExpectedRedshift ==
    IF z_selected = "unset" \/ z_selected = "$None$" THEN none_value
    ELSE IF z_selected = "$Unknown$" THEN unknown_value
    ELSE IF z_clicked = 0 THEN none_value
    ELSE Rat(z_clicked - RestWave(z_selected), RestWave(z_selected))

\* C7: after every radio-button selection and every middle click of a
\* redshift session the stored (and saved) redshift is none_value if no
\* button was selected yet, None is selected, or a line is selected and no
\* point was clicked; unknow_value if Unknown is selected; otherwise
\* x / rest wavelength - 1.
C7_StoredRedshift ==
    (z_session /\ (z_ev.op = "radio" \/ (z_ev.op = "click" /\ z_ev.button = 2))) =>
        /\ z_log = [has |-> TRUE, val |-> ExpectedRedshift]
        /\ z_disk = [exists |-> TRUE, has |-> TRUE, val |-> ExpectedRedshift]

\* C27: in every redshift session, also a later one on the same object,
\* selecting the radio button of a line before any middle click of that
\* session stores none_value for the object.
C27_LineBeforeClickIsNone ==
    (/\ z_session /\ z_ev.op = "radio"
     /\ z_selected \in Range(LatexArray)
     /\ z_clicked = 0)
    => /\ z_log = [has |-> TRUE, val |-> none_value]
       /\ z_disk = [exists |-> TRUE, has |-> TRUE, val |-> none_value]

(***************************************************************************)
(* CubeInspector: cube() and the handlers it connects.  A mask is a        *)
(* boolean image; the masks file holds one integer image per extension.    *)
(***************************************************************************)
\* self._cube.flux.shape[1:]
ImageShape == <<2, 2>>
Spaxels == (0..(ImageShape[1] - 1)) \X (0..(ImageShape[2] - 1))

\* HDU.data.astype('bool') and mask.astype(int)
AsBool(img) == [p \in DOMAIN img |-> img[p] # 0]
AsInt(img) == [p \in DOMAIN img |-> IF img[p] THEN 1 ELSE 0]

\* the integer image with ones at the spaxels of S
Image(S) == [p \in Spaxels |-> IF p \in S THEN 1 ELSE 0]

\* the contents of the masks files offered to cube(): disjoint regions,
\* overlapping regions, no extension at all
MasksFiles ==
    { << [name |-> "MASK_0", data |-> Image({<<0, 0>>})],
         [name |-> "MASK_1", data |-> Image({<<1, 1>>, <<1, 0>>})] >>,
      << [name |-> "MASK_0", data |-> Image({<<0, 0>>, <<0, 1>>})],
         [name |-> "MASK_1", data |-> Image({<<0, 1>>})] >>,
      << >> }

CEvent(op, button, dblclick, raised) ==
    [op |-> op, button |-> button, dblclick |-> dblclick, raised |-> raised]

\* state after CubeCheck.__init__ (lines 819-841)
NewCubeInspector ==
    /\ c_session = FALSE
    /\ masks_dict = <<>>
    /\ mask_ext = "None"
    /\ key_coords = <<0, 0>>
    /\ in_ax = "None"
    /\ mask_file = "None"
    /\ hdul_linelog = 0
    /\ c_handles = <<>>
    /\ c_loaded = [given |-> FALSE, masks |-> <<>>, lines_log |-> FALSE, handles |-> 0]
    /\ c_ev = CEvent("init", 0, FALSE, FALSE)

\* the inspector with one of the masks files on disk, and at rest
InitCube == NewCubeInspector /\ c_disk \in MasksFiles
IdleCube == NewCubeInspector /\ c_disk = <<>>

\* io.load_spatial_masks(mask_file), lines 1035-1068
load_spatial_masks(given, file) ==
    IF given
    THEN [k \in DOMAIN file |-> [name |-> file[k].name, data |-> AsBool(file[k].data)]]
    ELSE <<>>

\* cube(..., masks_file=..., lines_log_address=...), lines 851-1028, up to
\* the display of the window; given: masks_file is not None, lines_log:
\* lines_log_address is not None.  fits.open is called at line 959 and
\* again at line 1017; the second HDUList replaces the first one in
\* self.hdul_linelog, and whether the interpreter has closed the file of
\* the first one, which nothing refers to any more, is left open.
Cube(given, lines_log) ==
    /\ ~c_session
    /\ lines_log => Len(c_handles) < MaxHandles
    /\ \E loaded \in {load_spatial_masks(given, c_disk)} :
          /\ masks_dict' = loaded
          /\ c_loaded' = [given |-> given, masks |-> loaded, lines_log |-> lines_log,
                          handles |-> Len(c_handles)]
          /\ mask_ext' = IF Len(loaded) > 0 THEN loaded[1].name ELSE "_LINESLOG"
    /\ IF lines_log
       THEN \E collected \in BOOLEAN :
               /\ c_handles' = c_handles \o <<~collected, TRUE>>
               /\ hdul_linelog' = Len(c_handles) + 2
       ELSE UNCHANGED <<hdul_linelog, c_handles>>
    /\ key_coords' = <<ImageShape[1] \div 2, ImageShape[2] \div 2>>
    /\ c_session' = TRUE
    /\ c_ev' = CEvent("cube", 0, FALSE, FALSE)
    /\ UNCHANGED <<in_ax, mask_file, c_disk>>
    /\ UNCHANGED notCube

\* on_enter_axes(event), lines 1160-1161
OnEnterAxes(a) ==
    /\ c_session
    /\ a # in_ax
    /\ in_ax' = a
    /\ c_ev' = CEvent("enter", 0, FALSE, FALSE)
    /\ UNCHANGED <<c_session, masks_dict, mask_ext, key_coords, mask_file, c_disk,
                   hdul_linelog, c_handles, c_loaded>>
    /\ UNCHANGED notCube

spaxel_selection_keep_others(masks, ext, coords) ==
    [k \in DOMAIN masks |->
        IF masks[k].name = ext
        THEN [masks[k] EXCEPT !.data[coords] = ~masks[k].data[coords]]
        ELSE masks[k]]

\* spaxel_selection(), lines 1149-1158
spaxel_selection(masks, ext, coords) ==
    [k \in DOMAIN masks |->
        IF masks[k].name = ext
        THEN [masks[k] EXCEPT !.data[coords] = ~masks[k].data[coords]]
        ELSE [masks[k] EXCEPT !.data[coords] = FALSE]]

\* the HDUList of lines 1115-1117
MasksHDUL(masks) ==
    [k \in DOMAIN masks |-> [name |-> masks[k].name, data |-> AsInt(masks[k].data)]]

\* on_click(event), lines 1085-1130: a press at ydata, xdata = p.  writeto
\* gets self.mask_file; given None it writes no file, and whether it raises
\* is left open.
OnClick(button, dblclick, p) ==
    /\ c_session
    /\ IF in_ax = "ax0"
       THEN IF dblclick /\ Len(masks_dict) > 0
            THEN /\ key_coords' = p
                 /\ \E m \in {spaxel_selection(masks_dict, mask_ext, p)} :
                       /\ masks_dict' = m
                       /\ IF mask_file = "None"
                          THEN /\ UNCHANGED c_disk
                               /\ \E raised \in BOOLEAN :
                                     c_ev' = CEvent("click", button, dblclick, raised)
                          ELSE /\ c_disk' = MasksHDUL(m)
                               /\ c_ev' = CEvent("click", button, dblclick, FALSE)
            ELSE /\ key_coords' = IF button = 3 THEN p ELSE key_coords
                 /\ c_ev' = CEvent("click", button, dblclick, FALSE)
                 /\ UNCHANGED <<masks_dict, c_disk>>
       ELSE /\ c_ev' = CEvent("click", button, dblclick, FALSE)
            /\ UNCHANGED <<key_coords, masks_dict, c_disk>>
    /\ UNCHANGED <<c_session, mask_ext, in_ax, mask_file, hdul_linelog, c_handles,
                   c_loaded>>
    /\ UNCHANGED notCube

\* mask_selection(mask_label), lines 1132-1147: a press on the radio widget
\* that lists the keys of masks_dict
MaskSelection(mask_label) ==
    /\ c_session
    /\ \E k \in DOMAIN masks_dict : masks_dict[k].name = mask_label
    /\ mask_ext' = mask_label
    /\ c_ev' = CEvent("radio", 0, FALSE, FALSE)
    /\ UNCHANGED <<c_session, masks_dict, key_coords, in_ax, mask_file, c_disk,
                   hdul_linelog, c_handles, c_loaded>>
    /\ UNCHANGED notCube

\* the window is closed and cube() returns, lines 1028-1035: the HDUList
\* in self.hdul_linelog is closed
CloseCube ==
    /\ c_session
    /\ c_session' = FALSE
    /\ c_handles' = IF hdul_linelog # 0 THEN [c_handles EXCEPT ![hdul_linelog] = FALSE]
                    ELSE c_handles
    /\ c_ev' = CEvent("close", 0, FALSE, FALSE)
    /\ UNCHANGED <<masks_dict, mask_ext, key_coords, in_ax, mask_file, c_disk,
                   hdul_linelog, c_loaded>>
    /\ UNCHANGED notCube

NextCube ==
    \/ \E given, lines_log \in BOOLEAN : Cube(given, lines_log)
    \/ \E a \in {"ax0", "ax1", "radio"} : OnEnterAxes(a)
    \/ \E button \in {1, 3}, dblclick \in BOOLEAN, p \in Spaxels : OnClick(button, dblclick, p)
    \/ \E mask_label \in {"MASK_0", "MASK_1"} : MaskSelection(mask_label)
    \/ CloseCube

\* no spaxel belongs to two regions
Disjoint(masks) ==
    \A k1, k2 \in DOMAIN masks :
        k1 # k2 => \A p \in Spaxels : ~(masks[k1].data[p] /\ masks[k2].data[p])

\* the step is a double click on the image while masks are loaded
DoubleClickStep ==
    c_ev'.op = "click" /\ c_ev'.dblclick /\ in_ax = "ax0" /\ Len(masks_dict) > 0

\* C8: with a mask loaded, a double click on spaxel (j,i) while region R is
\* selected inverts (j,i) in R, removes it from every other region and
\* changes no other spaxel; regions loaded pairwise disjoint stay so.
C8_DoubleClickToggles ==
    /\ [](Disjoint(c_loaded.masks) => Disjoint(masks_dict))
    /\ [][DoubleClickStep =>
            /\ DOMAIN masks_dict' = DOMAIN masks_dict
            /\ \A k \in DOMAIN masks_dict :
                  /\ masks_dict'[k].name = masks_dict[k].name
                  /\ \A p \in Spaxels :
                        masks_dict'[k].data[p] =
                            IF p # key_coords' THEN masks_dict[k].data[p]
                            ELSE IF masks_dict[k].name = mask_ext
                                 THEN ~masks_dict[k].data[p]
                                 ELSE FALSE]_vars

C8_Witness ==
    /\ c_session /\ c_ev.op = "click" /\ c_ev.dblclick /\ in_ax = "ax0"
    /\ Disjoint(c_loaded.masks)
    /\ \E k1, k2 \in DOMAIN masks_dict :
          /\ masks_dict[k1].name = mask_ext /\ k2 # k1
          /\ masks_dict[k1].data[key_coords] /\ ~c_loaded.masks[k1].data[key_coords]
          /\ ~masks_dict[k2].data[key_coords] /\ c_loaded.masks[k2].data[key_coords]

\* C9: in a session started with masks_file, every double click on the
\* image completes by rewriting that file, whose extensions then equal the
\* in-memory regions.
C9_FileRewritten ==
    (c_session /\ c_loaded.given /\ Len(masks_dict) > 0 /\ in_ax = "ax0"
        /\ c_ev.op = "click" /\ c_ev.dblclick) =>
        /\ ~c_ev.raised
        /\ c_disk = MasksHDUL(masks_dict)

\* the HDULists that fits.open returned in the present cube() call
SessionHandles == (c_loaded.handles + 1)..Len(c_handles)

\* C22: in a cube session started with lines_log_address the lines-log file
\* is opened exactly once, stays open while spaxels are browsed, and no
\* handle to it is open when the session has ended.
C22_LinesLogOpenedOnce ==
    (c_loaded.lines_log /\ c_ev.op # "init") =>
        /\ Cardinality(SessionHandles) = 1
        /\ c_session => c_handles[hdul_linelog]
        /\ ~c_session => \A k \in SessionHandles : ~c_handles[k]

(***************************************************************************)
(* io.load_cfg with an obj_list.  A section is a function from its keys,   *)
(* the configuration a function from its section names.                    *)
(***************************************************************************)
\* the values written in the file and, of those, the ones float() accepts
FileValues == {"None", "1", "2", "H1-N2"}
FloatText == [v \in {"1", "2"} |-> IF v = "1" THEN "1.0" ELSE "2.0"]

\* check_numeric_Value(s), lines 332-337
check_numeric_Value(v) ==
    IF v \in DOMAIN FloatText THEN [type |-> "float", text |-> FloatText[v]]
    ELSE [type |-> "str", text |-> v]

\* format_option_value for an entry without ',' or ':' of a line_fitting
\* section whose key has no '_mask' (lines 345-346, 349-371)
format_option_value(entry_value) ==
    IF entry_value = "None" THEN [type |-> "NoneType", text |-> ""]
    ELSE check_numeric_Value(entry_value)

def_cfg_sec == "line_fitting"
local_label(obj) == obj \o "_line_fitting"

NoSections == [sec \in {} |-> 0]

\* dict.update: a copy of d1 updated with d2
Update(d1, d2) ==
    [k \in DOMAIN d1 \cup DOMAIN d2 |-> IF k \in DOMAIN d2 THEN d2[k] ELSE d1[k]]

\* d[k] = v on a dictionary of sections
SetSection(cfg, name, dict) ==
    [sec \in DOMAIN cfg \cup {name} |-> IF sec = name THEN dict ELSE cfg[sec]]

merge_object_shared(cfg, global_cfg, obj) ==
    The({ SetSection(SetSection(cfg, local_label(obj), merged), def_cfg_sec, merged) :
          merged \in {Update(cfg[def_cfg_sec],
                             IF local_label(obj) \in DOMAIN cfg THEN cfg[local_label(obj)]
                             ELSE NoSections)} })

\* one pass of the loop of lines 518-525
merge_object(cfg, global_cfg, obj) ==
    The({ SetSection(cfg, local_label(obj), Update(global_cfg, local_dict)) :
          local_dict \in {IF local_label(obj) \in DOMAIN cfg THEN cfg[local_label(obj)]
                          ELSE NoSections} })

RECURSIVE merge_objects(_, _, _)
merge_objects(cfg, global_cfg, objList) ==
    IF objList = <<>> THEN cfg
    ELSE The({ merge_objects(c, global_cfg, Tail(objList)) :
               c \in {merge_object(cfg, global_cfg, Head(objList))} })

\* lines 487-491: every entry converted from its string
parse_cfg(file) ==
    [sec \in DOMAIN file |-> [k \in DOMAIN file[sec] |-> format_option_value(file[sec][k])]]

\* load_cfg(file_address, obj_list), lines 428-527: [ok, cfg]; ok is FALSE
\* when the assertion of line 497 fails
load_cfg(file, obj_list) ==
    The({ IF def_cfg_sec \in DOMAIN cfg_lime
          THEN [ok |-> TRUE, cfg |-> merge_objects(cfg_lime, cfg_lime[def_cfg_sec], obj_list)]
          ELSE [ok |-> FALSE, cfg |-> NoSections] :
          cfg_lime \in {parse_cfg(file)} })

\* the files and object lists load_cfg is applied to
Dicts(K, V) == UNION {[S -> V] : S \in SUBSET K}
CfgFiles ==
    { [sec \in (IF has_def THEN {def_cfg_sec} ELSE {}) \cup
               (IF has_obj THEN {local_label("obj1")} ELSE {}) |->
          IF sec = def_cfg_sec THEN d ELSE o] :
      has_def \in BOOLEAN, has_obj \in BOOLEAN,
      d \in Dicts({"a", "b"}, FileValues), o \in Dicts({"b", "c"}, {"None", "2"}) }
ObjLists == {<<>>, <<"obj1">>, <<"obj1", "obj2">>, <<"obj2", "obj1", "obj1">>}

IdleCfg ==
    /\ cfg_file = NoSections
    /\ cfg_objs = <<>>
    /\ cfg_out = [done |-> TRUE, ok |-> FALSE, cfg |-> NoSections]

StartCfg ==
    /\ cfg_file \in CfgFiles
    /\ cfg_objs \in ObjLists
    /\ cfg_out = [done |-> FALSE, ok |-> FALSE, cfg |-> NoSections]

LoadCfg ==
    /\ ~cfg_out.done
    /\ \E r \in {load_cfg(cfg_file, cfg_objs)} :
          cfg_out' = [done |-> TRUE, ok |-> r.ok, cfg |-> r.cfg]
    /\ UNCHANGED <<cfg_file, cfg_objs>>
    /\ UNCHANGED notCfg

NextCfg == LoadCfg

\* the entries of a section of the file, converted; none if it is absent
Parsed(sec) ==
    IF sec \in DOMAIN cfg_file
    THEN [k \in DOMAIN cfg_file[sec] |-> format_option_value(cfg_file[sec][k])]
    ELSE NoSections

\* C10: after load_cfg with an obj_list, the section {obj}_line_fitting of
\* every listed object holds every key of the default section and of the
\* file's own section for the object, with the object's value where both
\* have the key; without an own section it is a copy of the default
\* section; and the default section is as the file gave it.
C10_ObjectSectionsMerged ==
    (cfg_out.done /\ cfg_out.ok) =>
        /\ \A n \in DOMAIN cfg_objs :
              /\ local_label(cfg_objs[n]) \in DOMAIN cfg_out.cfg
              /\ DOMAIN cfg_out.cfg[local_label(cfg_objs[n])] =
                    DOMAIN Parsed(def_cfg_sec) \cup DOMAIN Parsed(local_label(cfg_objs[n]))
              /\ \A k \in DOMAIN cfg_out.cfg[local_label(cfg_objs[n])] :
                    cfg_out.cfg[local_label(cfg_objs[n])][k] =
                        IF k \in DOMAIN Parsed(local_label(cfg_objs[n]))
                        THEN Parsed(local_label(cfg_objs[n]))[k]
                        ELSE Parsed(def_cfg_sec)[k]
              /\ local_label(cfg_objs[n]) \notin DOMAIN cfg_file =>
                    cfg_out.cfg[local_label(cfg_objs[n])] = Parsed(def_cfg_sec)
        /\ cfg_out.cfg[def_cfg_sec] = Parsed(def_cfg_sec)

C10_Witness ==
    /\ cfg_out.done /\ cfg_out.ok
    /\ cfg_objs = <<"obj1", "obj2">>
    /\ local_label("obj1") \in DOMAIN cfg_file
    /\ DOMAIN cfg_file[def_cfg_sec] = {"a", "b"}
    /\ DOMAIN cfg_file[local_label("obj1")] = {"b", "c"}
    /\ cfg_out.cfg[local_label("obj1")]["b"] # cfg_out.cfg[def_cfg_sec]["b"]
    /\ cfg_out.cfg[local_label("obj2")] = cfg_out.cfg[def_cfg_sec]

(***************************************************************************)
(* io.save_cfg on the mapping load_cfg returned, and load_cfg again on the *)
(* file written.  The text of an entry is the sequence of its items (the   *)
(* pieces between ','), an item the sequence of its parts (the pieces      *)
(* between ':').                                                           *)
(***************************************************************************)
Word(part) == << <<part>> >>
Items(parts) == [i \in DOMAIN parts |-> <<parts[i]>>]

\* the Python values of the options
NoneValue == [type |-> "NoneType"]
NanValue == [type |-> "nan"]
StrValue(text) == [type |-> "str", text |-> text]
FloatValue(num) == [type |-> "float", num |-> num]
BoolValue(flag) == [type |-> "bool", flag |-> flag]
DictValue(items) == [type |-> "dict", items |-> items]
ListValue(elems) == [type |-> "list", elems |-> elems]
ArrayValue(dtype, elems) == [type |-> "ndarray", dtype |-> dtype, elems |-> elems]
Raised(error) == [type |-> "raised", error |-> error]

AnyRaised(elems) == \E i \in DOMAIN elems : elems[i].type = "raised"

\* float(item) and str(float): '1' and '1.0' are one number, written '1.0'
FloatTexts == {"1", "1.0", "2", "2.0"}
float_of(text) == IF text \in {"1", "1.0"} THEN 1 ELSE 2
str_float(num) == IF num = 1 THEN "1.0" ELSE "2.0"
to_float(item) ==
    IF Len(item) = 1 /\ item[1] \in FloatTexts THEN FloatValue(float_of(item[1]))
    ELSE IF item = <<"nan">> THEN NanValue
    ELSE Raised("ValueError")

\* strtobool(item) == 1
strtobool(item) ==
    IF item \in {<<"True">>, <<"1">>} THEN BoolValue(TRUE)
    ELSE IF item \in {<<"False">>, <<"0">>} THEN BoolValue(FALSE)
    ELSE Raised("ValueError")

\* check_numeric_Value(s), lines 332-337, on the text of a whole entry
check_numeric_entry(entry_value) ==
    IF Len(entry_value) = 1 /\ to_float(entry_value[1]).type # "raised"
    THEN to_float(entry_value[1])
    ELSE StrValue(entry_value)

\* the words the keys and the section names hold
ArrayKeys == {"wave_array"}
PriorKeys == {"z_prior"}
ListKeys == {"obj_list"}
CheckKeys == {"norm_check"}
PathKeys == {"data_folder"}
MaskKeys == {"H1_mask"}
LineFittingSections == {def_cfg_sec, local_label("obj1"), local_label("obj2")}

\* lines 357-364: the value of one key:value pair
param_value(key, value) ==
    IF value = "None" THEN NoneValue
    ELSE IF key \in {"value", "min", "max"} THEN to_float(<<value>>)
    ELSE IF key = "vary" THEN strtobool(<<value>>)
    ELSE StrValue(Word(value))

\* lines 351-371: the loop over the pairs of a line_fitting entry
RECURSIVE fitting_pairs(_, _, _, _)
fitting_pairs(pairs, output_variable, entry_value, key_label) ==
    IF pairs = <<>> \/ output_variable.type = "raised" THEN output_variable
    ELSE fitting_pairs(
            Tail(pairs),
            IF Len(Head(pairs)) > 1
            THEN IF Len(Head(pairs)) # 2 THEN Raised("ValueError")
                 ELSE IF param_value(Head(pairs)[1], Head(pairs)[2]).type = "raised"
                      THEN Raised("ValueError")
                 ELSE IF output_variable.type # "dict" THEN Raised("TypeError")
                 ELSE DictValue(Update(output_variable.items,
                                       [k \in {Head(pairs)[1]} |->
                                           param_value(Head(pairs)[1], Head(pairs)[2])]))
            ELSE IF key_label \in MaskKeys THEN StrValue(entry_value)
            ELSE check_numeric_entry(entry_value),
            entry_value, key_label)

\* an array or a list of converted items, or the error of the first
\* conversion that fails
Collected(made, elems) == IF AnyRaised(elems) THEN Raised("ValueError") ELSE made

\* format_option_value(entry_value, key_label, section_label), lines
\* 341-424.  The '_array' entries with several items are numbers.
format_option_value_full(entry_value, key_label, section_label) ==
    IF entry_value = Word("None") THEN NoneValue
    ELSE IF section_label \in LineFittingSections
    THEN fitting_pairs(entry_value, DictValue(NoSections), entry_value, key_label)
    ELSE IF Len(entry_value) > 1
    THEN IF key_label = "lines"
         THEN ArrayValue("str", [i \in DOMAIN entry_value |-> StrValue(<<entry_value[i]>>)])
         ELSE IF key_label \in ArrayKeys
         THEN The({ Collected(ArrayValue("float", e), e) :
                    e \in {[i \in DOMAIN entry_value |-> to_float(entry_value[i])]} })
         ELSE IF key_label \in PriorKeys
         THEN The({ Collected(ArrayValue("object", e), e) :
                    e \in {[i \in DOMAIN entry_value |->
                              IF i > 1 THEN to_float(entry_value[i])
                              ELSE StrValue(<<entry_value[i]>>)]} })
         ELSE IF key_label \in ListKeys
         THEN ListValue([i \in DOMAIN entry_value |-> StrValue(<<entry_value[i]>>)])
         ELSE The({ Collected(ArrayValue("float", e), e) :
                    e \in {[i \in DOMAIN entry_value |->
                              IF entry_value[i] # <<"None">> THEN to_float(entry_value[i])
                              ELSE NanValue]} })
    ELSE IF key_label \in CheckKeys THEN strtobool(entry_value[1])
    ELSE IF key_label \in PathKeys THEN StrValue(entry_value)
    ELSE IF key_label \in ListKeys THEN ListValue(<<StrValue(entry_value)>>)
    ELSE IF key_label \in ArrayKeys THEN ArrayValue("str", <<StrValue(entry_value)>>)
    ELSE check_numeric_entry(entry_value)

\* lines 487-491 with the key and the section of every entry
parse_cfg_full(file) ==
    [sec \in DOMAIN file |->
        [k \in DOMAIN file[sec] |-> format_option_value_full(file[sec][k], k, sec)]]

AnyOptionRaised(cfg) ==
    \E sec \in DOMAIN cfg : \E k \in DOMAIN cfg[sec] : cfg[sec][k].type = "raised"

\* load_cfg(file_address, obj_list) on a file with a line_fitting section;
\* obj_list <<>> stands for no obj_list
load_cfg_full(file, obj_list) ==
    The({ IF AnyOptionRaised(cfg_lime) THEN [ok |-> FALSE, cfg |-> NoSections]
          ELSE [ok |-> TRUE,
                cfg |-> merge_objects(cfg_lime, cfg_lime[def_cfg_sec], obj_list)] :
          cfg_lime \in {parse_cfg_full(file)} })

\* str(item) of an item of a list or an array, and of a scalar
str_item(value) ==
    IF value.type = "str" THEN value.text
    ELSE IF value.type = "float" THEN Word(str_float(value.num))
    ELSE IF value.type = "bool" THEN Word(IF value.flag THEN "True" ELSE "False")
    ELSE Word("nan")

RECURSIVE join(_)
join(elems) == IF elems = <<>> THEN <<>> ELSE str_item(Head(elems)) \o join(Tail(elems))

Formatted(text) == [ok |-> TRUE, text |-> text]
nan_format == "nan"

\* lines 841-850: np.isnan accepts numbers and booleans, it raises a
\* TypeError on a dictionary
format_scalar(value) ==
    IF value.type = "str" THEN Formatted(value.text)
    ELSE IF value.type \in {"dict", "NoneType", "list"}
    THEN [ok |-> FALSE, text |-> Word("TypeError")]
    ELSE IF value.type = "nan" THEN Formatted(Word(nan_format))
    ELSE Formatted(str_item(value))

\* formatStringOutput(value, key, section_label), lines 816-856
formatStringOutput(value) ==
    IF value.type = "NoneType" THEN Formatted(Word("None"))
    ELSE IF value.type = "str" THEN Formatted(value.text)
    ELSE IF value.type \in {"list", "ndarray"}
    THEN IF Len(value.elems) = 1 THEN format_scalar(value.elems[1])
         ELSE Formatted(join(value.elems))
    ELSE format_scalar(value)

\* save_cfg(output_file, param_dict), lines 531-561: the file written, or
\* the error of an option that cannot be formatted
save_cfg(param_dict) ==
    IF \E sec \in DOMAIN param_dict : \E k \in DOMAIN param_dict[sec] :
           ~formatStringOutput(param_dict[sec][k]).ok
    THEN [ok |-> FALSE, file |-> NoSections]
    ELSE [ok |-> TRUE,
          file |-> [sec \in DOMAIN param_dict |->
                      [k \in DOMAIN param_dict[sec] |->
                          formatStringOutput(param_dict[sec][k]).text]]]

\* the entries of the files: lists and arrays of one and of several items,
\* numbers, booleans, paths, None, blended lines, fit-parameter dictionaries
SampleEntries ==
    { <<"lines", Items(<<"H1", "O3">>)>>, <<"lines", Word("all")>>,
      <<"wave_array", Items(<<"1", "2">>)>>, <<"wave_array", Word("1")>>,
      <<"z_prior", Items(<<"name", "1", "2">>)>>,
      <<"obj_list", Items(<<"obj1", "obj2">>)>>, <<"obj_list", Word("obj1")>>,
      <<"flux", Items(<<"1", "None">>)>>, <<"flux", Word("1")>>,
      <<"flux", Word("None")>>, <<"flux", Word("abc")>>,
      <<"norm_check", Word("True")>>, <<"norm_check", Word("0")>>,
      <<"data_folder", Word("1")>> }
FittingEntries ==
    { <<"H1_b", Word("H1-N2")>>,
      <<"H1_amp", << <<"value", "1">>, <<"vary", "False">> >> >>,
      <<"H1_amp", << <<"expr", "abc">> >> >>,
      <<"H1_amp", << <<"min", "None">> >> >>,
      <<"H1_mask", Items(<<"1", "2">>)>>,
      <<"noise", Word("1")>>, <<"noise", Items(<<"1", "2">>)>>,
      <<"noise", << <<"1">>, <<"value", "1">> >> >>,
      <<"noise", Word("None")>> }
ObjectEntries ==
    { <<"H1_b", Word("H1-O3")>>, <<"H1_amp", << <<"max", "2">> >> >> }
UpToOne(entries) == {NoSections} \cup { [k \in {e[1]} |-> e[2]] : e \in entries }
SaveCfgFiles ==
    { [sec \in {"sample_data", def_cfg_sec} \cup
               (IF has_obj THEN {local_label("obj1")} ELSE {}) |->
          IF sec = "sample_data" THEN s ELSE IF sec = def_cfg_sec THEN d ELSE o] :
      has_obj \in BOOLEAN, s \in UpToOne(SampleEntries),
      d \in UpToOne(FittingEntries), o \in UpToOne(ObjectEntries) }

CfgStep(pc, cfg, back) == [pc |-> pc, cfg |-> cfg, back |-> back]

StartSaveCfg ==
    /\ cfg_file \in SaveCfgFiles
    /\ cfg_objs \in {<<>>, <<"obj1">>, <<"obj1", "obj2">>}
    /\ cfg_out = CfgStep("start", NoSections, NoSections)

\* cfg = load_cfg(file, obj_list)
LoadFirst ==
    /\ cfg_out.pc = "start"
    /\ \E r \in {load_cfg_full(cfg_file, cfg_objs)} :
          cfg_out' = CfgStep(IF r.ok THEN "loaded" ELSE "load_raised", r.cfg, NoSections)
    /\ UNCHANGED <<cfg_file, cfg_objs>>
    /\ UNCHANGED notCfg

\* save_cfg(file, cfg): the file is opened for writing at line 558, after
\* every option was formatted
SaveCfg ==
    /\ cfg_out.pc = "loaded"
    /\ \E w \in {save_cfg(cfg_out.cfg)} :
          /\ cfg_file' = IF w.ok THEN w.file ELSE cfg_file
          /\ cfg_out' = CfgStep(IF w.ok THEN "saved" ELSE "save_raised",
                                cfg_out.cfg, NoSections)
    /\ UNCHANGED cfg_objs
    /\ UNCHANGED notCfg

\* load_cfg(file) on the file written
LoadBack ==
    /\ cfg_out.pc = "saved"
    /\ \E r \in {load_cfg_full(cfg_file, <<>>)} :
          cfg_out' = CfgStep(IF r.ok THEN "reloaded" ELSE "reload_raised",
                             cfg_out.cfg, r.cfg)
    /\ UNCHANGED <<cfg_file, cfg_objs>>
    /\ UNCHANGED notCfg

NextSaveCfg == LoadFirst \/ SaveCfg \/ LoadBack

HoldsDict(cfg) ==
    \E sec \in DOMAIN cfg : \E k \in DOMAIN cfg[sec] : cfg[sec][k].type = "dict"

\* C25: for every mapping cfg returned by load_cfg, save_cfg(file, cfg)
\* followed by load_cfg(file) gives a mapping equal to cfg, option by
\* option: None values, lists and arrays of one and of several items,
\* booleans and the fit-parameter dictionaries of line_fitting sections.
C25_SaveThenLoadGivesCfg ==
    (cfg_out.pc \in {"save_raised", "saved", "reload_raised", "reloaded"}) =>
        /\ cfg_out.pc \notin {"save_raised", "reload_raised"}
        /\ cfg_out.pc = "reloaded" => cfg_out.back = cfg_out.cfg

\* the same round trip for the mappings that hold no dictionary
SaveThenLoadWithoutDict ==
    (cfg_out.pc \in {"save_raised", "saved", "reload_raised", "reloaded"}
        /\ ~HoldsDict(cfg_out.cfg)) =>
        /\ cfg_out.pc \notin {"save_raised", "reload_raised"}
        /\ cfg_out.pc = "reloaded" => cfg_out.back = cfg_out.cfg

\* a mapping with a list of one item, an array and a None came back equal
SaveThenLoadReached ==
    /\ cfg_out.pc = "reloaded"
    /\ cfg_out.back = cfg_out.cfg
    /\ \E k \in DOMAIN cfg_out.cfg["sample_data"] :
          cfg_out.cfg["sample_data"][k].type \in {"list", "ndarray"}

(***************************************************************************)
(* save_log and load_log on one destination path.                          *)
(***************************************************************************)
KnownSuffixes == {".txt", ".pdf", ".fits", ".asdf", ".xlsx", ".xls"}
Suffixes == KnownSuffixes \cup {".csv", ""}

LogRow(label, w, wavelength) == [label |-> label, w |-> w, wavelength |-> wavelength]
SampleRow(id, r) == [f \in DOMAIN r \cup {"id"} |-> IF f = "id" THEN id ELSE r[f]]
LatexRow(latex, r) ==
    [f \in DOMAIN r \cup {"latex_label"} |-> IF f = "latex_label" THEN latex ELSE r[f]]

\* the tables given to save_log: no row; rows whose numbers a text file
\* renders exactly; a row with a number between two rendered places; a
\* table with the (id, line) index; a table with the latex_label column
LogTables ==
    { <<>>,
      << LogRow(H1_8A, <<20, 40, 60, 100, 120, 140>>, 8) >>,
      << LogRow(H1_8A, <<20, 40, 60, 100, 120, 140>>, 8),
         LogRow(O3_20A, <<150, 170, 193, 210, 230, 250>>, 20) >>,
      << SampleRow("obj1", LogRow(H1_8A, <<20, 40, 60, 100, 120, 140>>, 8)),
         SampleRow("obj2", LogRow(H1_8A, <<30, 40, 60, 100, 120, 140>>, 8)) >>,
      << LatexRow("$HI$", LogRow(H1_8A, <<20, 40, 60, 100, 120, 140>>, 8)) >> }

\* the parameters argument: every column, the band columns, a column the
\* table does not have
LogParameters == {AllParameters, BandParameters, {"w", "flux"}}

\* what the destination holds before the first call
OldFiles == {NoFile, TableFile(<< [label |-> N2_40A, w |-> <<360, 370, 390, 410, 430, 440>>] >>)}

LogCall(op, raised, info, fresh) ==
    [op |-> op, raised |-> raised, info |-> info, fresh |-> fresh]

IdleLog ==
    /\ lg_table = <<>>
    /\ lg_params = AllParameters
    /\ lg_suffix = ".txt"
    /\ lg_folder = TRUE
    /\ lg_file = NoFile
    /\ lg_before = NoFile
    /\ lg_out = LogCall("init", "None", FALSE, FALSE)
    /\ lg_loaded = <<>>

StartLog ==
    /\ lg_table \in LogTables
    /\ lg_params \in LogParameters
    /\ lg_suffix \in Suffixes
    /\ lg_folder \in BOOLEAN
    /\ lg_file \in {f \in OldFiles : f.exists => lg_folder}
    /\ lg_before = lg_file
    /\ lg_out = LogCall("init", "None", FALSE, FALSE)
    /\ lg_loaded = <<>>

\* save_log(lg_table, path, parameters=lg_params)
SaveLog ==
    /\ \E r \in {save_log(lg_table, lg_suffix, lg_params, lg_folder, lg_file)} :
          /\ lg_file' = r.file
          /\ lg_out' = LogCall("save", r.raised, r.info, FALSE)
    /\ lg_before' = lg_file
    /\ UNCHANGED <<lg_table, lg_params, lg_suffix, lg_folder, lg_loaded>>
    /\ UNCHANGED notLog

\* load_log(path); fresh: the file is the one the call before wrote
LoadLog ==
    /\ \E r \in {load_log(lg_file, lg_suffix)} :
          /\ lg_loaded' = r.log
          /\ lg_out' = LogCall("load", r.raised, FALSE,
                               lg_out.op = "save" /\ lg_out.raised = "None" /\ ~lg_out.info)
    /\ lg_before' = lg_file
    /\ UNCHANGED <<lg_table, lg_params, lg_suffix, lg_folder, lg_file>>
    /\ UNCHANGED notLog

NextLog == SaveLog \/ LoadLog

(***************************************************************************)
(* Properties of save_log and load_log.                                    *)
(***************************************************************************)
ValidParameters ==
    lg_params = AllParameters \/ lg_table = <<>> \/ lg_params \subseteq DOMAIN lg_table[1]

\* C11: save_log with a table of zero rows and an existing destination
\* folder leaves the destination as it was (absent or with its old content),
\* whatever the suffix, and logs the informational message.
C11_EmptyTableNoWrite ==
    (lg_out.op = "save" /\ lg_table = <<>> /\ lg_folder) =>
        /\ lg_file = lg_before
        /\ lg_out.info

C11_Witness ==
    /\ lg_out.op = "save" /\ lg_table = <<>> /\ lg_folder
    /\ lg_suffix = ".fits"
    /\ lg_before.exists /\ lg_file = lg_before /\ lg_out.info

IndexOf(r) == IF "id" \in DOMAIN r THEN <<r.id, r.label>> ELSE <<r.label>>

\* C13: for a table with rows, save_log(log, path) followed by
\* load_log(path), path ending in .txt or .fits, returns a table with the
\* same index set and the same value in every saved column.
C13_RoundTrip ==
    (/\ lg_out.op = "load" /\ lg_out.fresh
     /\ lg_params = AllParameters /\ lg_suffix \in {".txt", ".fits"}) =>
        /\ lg_out.raised = "None"
        /\ {IndexOf(lg_loaded[i]) : i \in DOMAIN lg_loaded}
              = {IndexOf(lg_table[i]) : i \in DOMAIN lg_table}
        /\ Len(lg_loaded) = Len(lg_table)
        /\ \A i \in DOMAIN lg_table :
              /\ DOMAIN lg_loaded[i] = DOMAIN lg_table[i]
              /\ \A f \in DOMAIN lg_table[i] : lg_loaded[i][f] = lg_table[i][f]

(***************************************************************************)
(* tools.int_to_roman, one iteration of its while loop per step.           *)
(***************************************************************************)
VAL_LIST_no_four == <<1000, 900, 500, 400, 100, 90, 50, 40, 10, 9, 5, 5, 1>>

VAL_LIST == <<1000, 900, 500, 400, 100, 90, 50, 40, 10, 9, 5, 4, 1>>
SYB_LIST == <<"M", "CM", "D", "CD", "C", "XC", "L", "XL", "X", "IX", "V", "IV", "I">>

\* the numbers int_to_roman is called with
RomanInputs == (0 - MinRoman)..MaxRoman

\* s repeated k times
RECURSIVE Repeat(_, _)
Repeat(s, k) == IF k <= 0 THEN "" ELSE s \o Repeat(s, k - 1)

IdleRoman ==
    /\ r_in = 0
    /\ r_num = 0
    /\ r_i = 0
    /\ r_roman = ""
    /\ r_pc = "idle"

\* line 38, before the first test of the while condition
StartRoman ==
    /\ r_in \in RomanInputs
    /\ r_num = r_in
    /\ r_i = 0
    /\ r_roman = ""
    /\ r_pc = "loop"

\* lines 39-43: one pass through the body of the while loop; VAL_LIST[i]
\* raises IndexError when i has passed the last entry
RomanIter ==
    /\ r_pc = "loop"
    /\ r_num > 0
    /\ IF r_i >= Len(VAL_LIST)
       THEN /\ r_pc' = "IndexError"
            /\ UNCHANGED <<r_num, r_i, r_roman>>
       ELSE \E k \in {r_num \div VAL_LIST[r_i + 1]} :
               /\ r_roman' = r_roman \o Repeat(SYB_LIST[r_i + 1], k)
               /\ r_num' = r_num - k * VAL_LIST[r_i + 1]
               /\ r_i' = r_i + 1
               /\ r_pc' = "loop"
    /\ UNCHANGED r_in
    /\ UNCHANGED notRoman

\* lines 39 and 44: the while condition fails and roman_num is returned
RomanReturn ==
    /\ r_pc = "loop"
    /\ r_num <= 0
    /\ r_pc' = "done"
    /\ UNCHANGED <<r_in, r_num, r_i, r_roman>>
    /\ UNCHANGED notRoman

NextRoman == RomanIter \/ RomanReturn

(***************************************************************************)
(* Properties of int_to_roman.                                             *)
(***************************************************************************)
\* the subtractive-notation numeral, digit by digit
RomanDigit(d, one, five, ten) ==
    CASE d = 0 -> ""
      [] d = 1 -> one
      [] d = 2 -> one \o one
      [] d = 3 -> one \o one \o one
      [] d = 4 -> one \o five
      [] d = 5 -> five
      [] d = 6 -> five \o one
      [] d = 7 -> five \o one \o one
      [] d = 8 -> five \o one \o one \o one
      [] d = 9 -> one \o ten

StandardRoman(n) ==
    Repeat("M", n \div 1000)
      \o RomanDigit((n \div 100) % 10, "C", "D", "M")
      \o RomanDigit((n \div 10) % 10, "X", "L", "C")
      \o RomanDigit(n % 10, "I", "V", "X")

\* C14: int_to_roman(n) is the standard numeral for n in 1..3999 and the
\* empty string for n <= 0; the loop never reads VAL_LIST past its last
\* entry; and the call returns for every input.
C14_StandardNumeral ==
    /\ [](/\ r_pc # "IndexError"
          /\ (r_pc = "loop" /\ r_num > 0) => r_i < Len(VAL_LIST)
          /\ (r_pc = "done" /\ r_in \in 1..3999) => r_roman = StandardRoman(r_in)
          /\ (r_pc = "done" /\ r_in <= 0) => r_roman = "")
    /\ <>(r_pc = "done")

C14_Witness == r_pc = "done" /\ r_in = 3999 /\ r_roman = "MMMCMXCIX"

(***************************************************************************)
(* tools.label_decomposition with the arguments lines, recomb_atom,        *)
(* comp_dict and scalar_output (user_format empty, units_wave 'A'): the    *)
(* three output arrays.  A label is a sequence of characters; the ion and  *)
(* the Latex label are returned as strings.                                *)
(***************************************************************************)
\* ''.join(s)
RECURSIVE Join(_)
Join(s) == IF s = <<>> THEN "" ELSE Head(s) \o Join(Tail(s))

\* the while loop of int_to_roman as a function of num and i
RECURSIVE RomanLoop(_, _)
RomanLoop(num, i) ==
    IF num <= 0 THEN ""
    ELSE The({ Repeat(SYB_LIST[i + 1], k) \o RomanLoop(num - k * VAL_LIST[i + 1], i + 1) :
               k \in {num \div VAL_LIST[i + 1]} })

int_to_roman(num) == RomanLoop(num, 0)

\* sub in s, for strings
Contains(s, sub) ==
    \E i \in 1..(Len(s) - Len(sub) + 1) : SubSeq(s, i, i + Len(sub) - 1) = sub

DictHas(d, k) == \E i \in DOMAIN d : d[i].key = k
DictGet(d, k) == d[CHOOSE i \in DOMAIN d : d[i].key = k].val
DictValues(d) == [i \in DOMAIN d |-> d[i].val]

UNITS_LATEX_A == "\\AA"

\* lines 129-132: the ion code of one component
ComponentIon(line_i) ==
    IF Contains(line_i, <<"r", "_">>)
    THEN PySlice(line_i, 0, Find0(line_i, "_") - 1)
    ELSE PySlice(line_i, 0, Find0(line_i, "_"))

\* lines 126, 135-142: the wavelength text, the units and the extension
ComponentTail(line_i) ==
    LET kinem_comp_check == CountChar(line_i, "_") # 1
        endsA == line_i # <<>> /\ line_i[Len(line_i)] = "A"
    IN  IF endsA \/ kinem_comp_check
        THEN [wavelength |-> PySlice(line_i, Find0(line_i, "_") + 1, RFind0(line_i, "A")),
              units |-> UNITS_LATEX_A,
              ext |-> IF kinem_comp_check
                      THEN "-" \o Join(PySlice(line_i, RFind0(line_i, "_") + 1, Len(line_i)))
                      ELSE ""]
        ELSE [wavelength |-> PySlice(line_i, Find0(line_i, "_") + 1, Len(line_i)),
              units |-> "", ext |-> ""]

\* lines 150-153 with every ion in brackets
comp_line_always_brackets(ion, recomb_atom, tail) ==
    LET atom == Join(PySlice(ion, 0, 0 - 1))
        ionizationRoman == int_to_roman(DigitVal[ion[Len(ion)]])
    IN  "[" \o atom \o ionizationRoman \o "]" \o "\\," \o Join(tail.wavelength)
            \o tail.units \o tail.ext

\* lines 145-153: the Latex term of one component
comp_line(ion, recomb_atom, tail) ==
    LET atom == Join(PySlice(ion, 0, 0 - 1))
        ionizationRoman == int_to_roman(DigitVal[ion[Len(ion)]])
    IN  IF Join(ion) \in recomb_atom
        THEN atom \o ionizationRoman \o "\\," \o Join(tail.wavelength)
                  \o tail.units \o tail.ext
        ELSE "[" \o atom \o ionizationRoman \o "]" \o "\\," \o Join(tail.wavelength)
                  \o tail.units \o tail.ext

\* the exception one component raises, in the order of the statements:
\* ion[-1] on an empty ion, int() of a non-digit, float() of a non-number
ComponentRaises(line_i, stored) ==
    The({ IF ion = <<>> THEN "IndexError"
          ELSE IF ion[Len(ion)] \notin DOMAIN DigitVal THEN "ValueError"
          ELSE IF stored /\ PyFloat(ComponentTail(line_i).wavelength) < 0 THEN "ValueError"
          ELSE "None" :
          ion \in {ComponentIon(line_i)} })

\* lines 123-168: the loop over the components of one label; st holds the
\* three dictionaries, the Latex label built so far and the exception
RECURSIVE LatexComponents(_, _, _, _, _)
LatexComponents(comps, lineLabel, lineRef, recomb_atom, st) ==
    IF comps = <<>> \/ st.raised # "None" THEN st
    ELSE The({ LatexComponents(Tail(comps), lineLabel, lineRef, recomb_atom, st2) : st2 \in {
           LET line_i == Head(comps)
               mixture_line == Last2(lineLabel) = SufB \/ Last2(lineLabel) = SufM
               stored == ~mixture_line \/ DropLast2(lineLabel) = line_i
               raised == ComponentRaises(line_i, stored)
           IN  IF raised # "None" THEN [st EXCEPT !.raised = raised]
               ELSE The({ The({
                      IF mixture_line
                      THEN [st EXCEPT
                              !.ion_dict = IF stored THEN DictSet(@, lineRef, Join(ion)) ELSE @,
                              !.wave_dict = IF stored
                                            THEN DictSet(@, lineRef, ComponentWave(line_i))
                                            ELSE @,
                              !.latexLabel = IF @ = "" THEN term ELSE @ \o "+" \o term]
                      ELSE [st EXCEPT
                              !.ion_dict = DictSet(@, line_i, Join(ion)),
                              !.wave_dict = DictSet(@, line_i, ComponentWave(line_i)),
                              !.latexLabel_dict = DictSet(@, line_i, "$" \o term \o "$")] :
                      term \in {comp_line(ion, recomb_atom, ComponentTail(line_i))} }) :
                      ion \in {ComponentIon(line_i)} }) } })

\* lines 98-171: the loop over the labels
RECURSIVE LatexLines(_, _, _, _)
LatexLines(lines, recomb_atom, comp_dict, st) ==
    IF lines = <<>> \/ st.raised # "None" THEN st
    ELSE The({ LatexLines(Tail(lines), recomb_atom, comp_dict, st3) : st3 \in {
           LET lineLabel == Head(lines)
               mixture_line == Last2(lineLabel) = SufB \/ Last2(lineLabel) = SufM
               lineRef == IF mixture_line
                          THEN IF DictHas(comp_dict, lineLabel)
                               THEN DictGet(comp_dict, lineLabel)
                               ELSE DropLast2(lineLabel)
                          ELSE lineLabel
           IN  The({ IF mixture_line /\ st2.raised = "None"
                     THEN [st2 EXCEPT !.latexLabel_dict =
                                 DictSet(@, lineRef, "$" \o st2.latexLabel \o "$")]
                     ELSE st2 :
                     st2 \in {LatexComponents(Split(lineRef, "-"), lineLabel, lineRef,
                                              recomb_atom, [st EXCEPT !.latexLabel = ""])} }) } })

\* lines 92-93 without the test
repeated_entries_ignored(lines) == FALSE

\* lines 92-93: np.any(count > 1) of np.unique(lines, return_counts=True)
repeated_entries(lines) == \E i, j \in DOMAIN lines : i # j /\ lines[i] = lines[j]

NoOutput(raised) ==
    [raised |-> raised, scalar |-> FALSE, ion |-> <<>>, wave |-> <<>>, latex |-> <<>>]

\* lines 89-187: [raised, scalar, ion, wave, latex]
label_decomposition_latex(lines, recomb_atom, comp_dict, scalar_output) ==
    IF repeated_entries(lines) THEN NoOutput("AssertionError")
    ELSE The({
           IF st.raised # "None" THEN NoOutput(st.raised)
           ELSE IF Len(st.ion_dict) # Len(st.wave_dict)
                   \/ Len(st.ion_dict) # Len(st.latexLabel_dict)
                THEN NoOutput("AssertionError")
           ELSE IF Len(st.ion_dict) = 1 /\ scalar_output
                THEN [raised |-> "None", scalar |-> TRUE,
                      ion |-> st.ion_dict[1].val, wave |-> st.wave_dict[1].val,
                      latex |-> st.latexLabel_dict[1].val]
           ELSE [raised |-> "None", scalar |-> FALSE,
                 ion |-> DictValues(st.ion_dict), wave |-> DictValues(st.wave_dict),
                 latex |-> DictValues(st.latexLabel_dict)] :
           st \in {LatexLines(lines, recomb_atom, comp_dict,
                              [ion_dict |-> <<>>, wave_dict |-> <<>>,
                               latexLabel_dict |-> <<>>, latexLabel |-> "",
                               raised |-> "None"])} })

(***************************************************************************)
(* The calls of label_decomposition that are checked.                      *)
(***************************************************************************)
L_O3_5007A == <<"O", "3", "_", "5", "0", "0", "7", "A">>
L_H1_6563A == <<"H", "1", "_", "6", "5", "6", "3", "A">>
L_He2_4686A == <<"H", "e", "2", "_", "4", "6", "8", "6", "A">>
L_N2_6584A == <<"N", "2", "_", "6", "5", "8", "4", "A">>
L_N2_6548A == <<"N", "2", "_", "6", "5", "4", "8", "A">>
L_O2_3726A == <<"O", "2", "_", "3", "7", "2", "6", "A">>
L_O2_3729A == <<"O", "2", "_", "3", "7", "2", "9", "A">>
L_H1_6563A_b == <<"H", "1", "_", "6", "5", "6", "3", "A", "_", "b">>
L_O2_3726A_m == <<"O", "2", "_", "3", "7", "2", "6", "A", "_", "m">>
L_O3_5007A_k1 == <<"O", "3", "_", "5", "0", "0", "7", "A", "_", "k", "1">>

DecompLabels == {L_O3_5007A, L_H1_6563A, L_He2_4686A, L_N2_6584A, L_H1_6563A_b,
                 L_O2_3726A_m, L_O3_5007A_k1}

DefaultRecomb == {"H1", "He1", "He2"}

\* comp_dict: the composition of the blended and of the merged line
Blends ==
    << [key |-> L_H1_6563A_b,
        val |-> L_H1_6563A \o <<"-">> \o L_N2_6584A \o <<"-">> \o L_N2_6548A],
       [key |-> L_O2_3726A_m, val |-> L_O2_3726A \o <<"-">> \o L_O2_3729A] >>

DecompCalls ==
    [lines : {<<a>> : a \in DecompLabels} \cup {<<a, b>> : a, b \in DecompLabels},
     recomb_atom : {DefaultRecomb, {"O3"}},
     comp_dict : {<<>>, Blends},
     scalar_output : BOOLEAN]

IdleDecomp ==
    /\ d_args = [lines |-> <<>>, recomb_atom |-> DefaultRecomb, comp_dict |-> <<>>,
                 scalar_output |-> FALSE]
    /\ d_out = [done |-> FALSE]

StartDecomp ==
    /\ d_args \in DecompCalls
    /\ d_out = [done |-> FALSE]

\* the call and its return value or exception
Decompose ==
    /\ ~d_out.done
    /\ d_out' = [done |-> TRUE,
                 out |-> label_decomposition_latex(d_args.lines, d_args.recomb_atom,
                                                   d_args.comp_dict, d_args.scalar_output)]
    /\ UNCHANGED d_args
    /\ UNCHANGED notDecomp

NextDecomp == Decompose

(***************************************************************************)
(* Properties of label_decomposition.                                      *)
(***************************************************************************)
\* C15: label_decomposition('O3_5007A', scalar_output=True) returns the ion
\* 'O3', the wavelength 5007.0 and the Latex label '$5007\AA\,[OIII]$', the
\* wavelength and its unit placed before the ion term.
C15_DocstringExample ==
    (/\ d_out.done
     /\ d_args.lines = <<L_O3_5007A>>
     /\ d_args.recomb_atom = DefaultRecomb
     /\ d_args.scalar_output)
    => d_out.out = [raised |-> "None", scalar |-> TRUE, ion |-> "O3", wave |-> 5007,
                    latex |-> "$5007\\AA\\,[OIII]$"]

\* what the notation says of each constituent label: the ion code, the atom,
\* the ionization stage and the text after the ion term
Notation(c) ==
    CASE c = L_O3_5007A -> [ion |-> "O3", atom |-> "O", stage |-> 3, rest |-> "5007\\AA"]
      [] c = L_H1_6563A -> [ion |-> "H1", atom |-> "H", stage |-> 1, rest |-> "6563\\AA"]
      [] c = L_He2_4686A -> [ion |-> "He2", atom |-> "He", stage |-> 2, rest |-> "4686\\AA"]
      [] c = L_N2_6584A -> [ion |-> "N2", atom |-> "N", stage |-> 2, rest |-> "6584\\AA"]
      [] c = L_N2_6548A -> [ion |-> "N2", atom |-> "N", stage |-> 2, rest |-> "6548\\AA"]
      [] c = L_O2_3726A -> [ion |-> "O2", atom |-> "O", stage |-> 2, rest |-> "3726\\AA"]
      [] c = L_O2_3729A -> [ion |-> "O2", atom |-> "O", stage |-> 2, rest |-> "3729\\AA"]
      [] c = L_O3_5007A_k1 ->
            [ion |-> "O3", atom |-> "O", stage |-> 3, rest |-> "5007\\AA-k1"]

\* the constituents of a label, in order
Constituents(label, comp_dict) ==
    CASE label = L_H1_6563A_b ->
            IF comp_dict = Blends THEN <<L_H1_6563A, L_N2_6584A, L_N2_6548A>>
            ELSE <<L_H1_6563A>>
      [] label = L_O2_3726A_m ->
            IF comp_dict = Blends THEN <<L_O2_3726A, L_O2_3729A>> ELSE <<L_O2_3726A>>
      [] OTHER -> <<label>>

ExpectedTerm(c, recomb_atom) ==
    LET n == Notation(c)
        ionTerm == n.atom \o StandardRoman(n.stage)
    IN  (IF n.ion \in recomb_atom THEN ionTerm ELSE "[" \o ionTerm \o "]")
          \o "\\," \o n.rest

RECURSIVE JoinPlus(_)
JoinPlus(terms) ==
    IF Len(terms) = 1 THEN terms[1] ELSE terms[1] \o "+" \o JoinPlus(Tail(terms))

ExpectedLatex(label, recomb_atom, comp_dict) ==
    LET cs == Constituents(label, comp_dict)
    IN  "$" \o JoinPlus([k \in DOMAIN cs |-> ExpectedTerm(cs[k], recomb_atom)]) \o "$"

\* C16: the Latex term of every constituent is the atom and the Roman
\* ionization stage, in square brackets iff the ion is not in recomb_atom,
\* and the label of a _b/_m group is the terms of its constituents, in
\* order, joined with '+'.
C16_LatexTerms ==
    (d_out.done /\ d_out.out.raised = "None") =>
        LET expected == [i \in DOMAIN d_args.lines |->
                            ExpectedLatex(d_args.lines[i], d_args.recomb_atom,
                                          d_args.comp_dict)]
            latex == IF d_out.out.scalar THEN <<d_out.out.latex>> ELSE d_out.out.latex
        IN  /\ Range(latex) = Range(expected)
            /\ Len(latex) = Len(expected) => latex = expected

C16_Witness ==
    /\ d_out.done
    /\ d_args.lines = <<L_H1_6563A_b, L_O3_5007A>>
    /\ d_args.comp_dict = Blends
    /\ d_args.recomb_atom = DefaultRecomb
    /\ d_out.out.raised = "None"
    /\ d_out.out.latex = << "$HI\\,6563\\AA+[NII]\\,6584\\AA+[NII]\\,6548\\AA$",
                            "$[OIII]\\,5007\\AA$" >>

\* C17: a list in which some label occurs more than once makes
\* label_decomposition fail with an assertion error and return nothing.
C17_RepeatedLabelFails ==
    (/\ d_out.done
     /\ \E i, j \in DOMAIN d_args.lines : i # j /\ d_args.lines[i] = d_args.lines[j])
    => d_out.out = NoOutput("AssertionError")

C17_Witness ==
    /\ d_out.done
    /\ d_args.lines = <<L_O3_5007A, L_O3_5007A>>
    /\ d_out.out.raised = "AssertionError"

\* the entry of one label when it is decomposed on its own
OwnEntry(label, recomb_atom) ==
    The({ [ion |-> o.ion[1], wave |-> o.wave[1], latex |-> o.latex[1]] :
          o \in {label_decomposition_latex(<<label>>, recomb_atom, <<>>, FALSE)} })

\* C30: for pairwise distinct labels, an empty comp_dict and array output,
\* label_decomposition returns three arrays with exactly one entry per input
\* label, in input order, also when the list holds a label together with its
\* _b or _m form.
C30_OneEntryPerLabel ==
    (/\ d_out.done
     /\ d_args.comp_dict = <<>>
     /\ ~d_args.scalar_output
     /\ ~repeated_entries(d_args.lines))
    => /\ d_out.out.raised = "None"
       /\ ~d_out.out.scalar
       /\ Len(d_out.out.ion) = Len(d_args.lines)
       /\ Len(d_out.out.wave) = Len(d_args.lines)
       /\ Len(d_out.out.latex) = Len(d_args.lines)
       /\ \A i \in DOMAIN d_args.lines :
             [ion |-> d_out.out.ion[i], wave |-> d_out.out.wave[i],
              latex |-> d_out.out.latex[i]]
                 = OwnEntry(d_args.lines[i], d_args.recomb_atom)

(***************************************************************************)
(* tools.compute_line_width and tools.LineFinder.label_peaks.  Wavelengths *)
(* are integers that count hundredths of an Angstrom.  The mask is a       *)
(* record of its columns and its rows; "w" stands for the columns w1..w6.  *)
(***************************************************************************)
WaveUnit == 100

\* np.nan in a band cell
NanCell == 0 - 1

\* a[i] of a Python sequence: positions -len(a)..len(a)-1 exist, a negative
\* one counts from the end
InRange(a, i) == 0 - Len(a) <= i /\ i < Len(a)
PyItem(a, i) == a[((i + Len(a)) % Len(a)) + 1]

\* lines 199-208: the while loops of compute_line_width
RECURSIVE WidthLoop(_, _, _, _, _, _)
WidthLoop(i, idx_peak, spec_flux, delta_i, min_delta, emission_check) ==
    IF ~InRange(spec_flux, i) \/ ~InRange(spec_flux, i + delta_i)
    THEN [raised |-> "IndexError", i |-> i]
    ELSE IF \/ IF emission_check
               THEN PyItem(spec_flux, i) > PyItem(spec_flux, i + delta_i)
               ELSE PyItem(spec_flux, i) < PyItem(spec_flux, i + delta_i)
            \/ Abs(idx_peak - (i + delta_i)) <= min_delta
         THEN WidthLoop(i + delta_i, idx_peak, spec_flux, delta_i, min_delta,
                        emission_check)
         ELSE [raised |-> "None", i |-> i]

compute_line_width(idx_peak, spec_flux, delta_i, min_delta, emission_check) ==
    WidthLoop(idx_peak, idx_peak, spec_flux, delta_i, min_delta, emission_check)

\* np.isclose(a, b, atol=atol) with its default rtol=1e-05:
\* |a - b| <= atol + rtol * |b|; for whole a, b and atol the fraction of
\* rtol * |b| decides nothing
RTolInverse == 100000
isclose(a, b, atol) == Abs(a - b) <= atol + (Abs(b) \div RTolInverse)

\* np.diff(wave).mean(): the sum of the differences is last minus first;
\* the spectra used here have a whole mean step
MeanDiff(wave) == (wave[Len(wave)] - wave[1]) \div (Len(wave) - 1)

\* np.round(wave) of a wavelength, in Angstrom, a tie going to the even number
RoundAngstrom(v) ==
    LET q == v \div WaveUnit
        r == v % WaveUnit
    IN  IF 2 * r < WaveUnit THEN q
        ELSE IF 2 * r > WaveUnit THEN q + 1
        ELSE IF q % 2 = 0 THEN q ELSE q + 1

DigitChar == <<"0", "1", "2", "3", "4", "5", "6", "7", "8", "9">>

\* '{:.0f}'.format(n) for a whole n >= 0
RECURSIVE Digits(_)
Digits(n) == IF n < 10 THEN <<DigitChar[n + 1]>>
             ELSE Digits(n \div 10) \o <<DigitChar[(n % 10) + 1]>>

\* line 438
unknownLineLabel(wave_peak) ==
    <<"x", "y", "_">> \o Digits(RoundAngstrom(wave_peak)) \o <<"A">>

SetMin(S) == CHOOSE x \in S : \A y \in S : x <= y

\* lines 435-462: the body of the loop over the peaks; st is matched_DF and
\* the exception raised so far, a holds the arguments and the spectrum
MatchPeak(st, waveTheory, idx_peak, tolerance, a) ==
    LET wave_peak == PyItem(a.wave_rest, idx_peak)
        idx_array == {k \in DOMAIN waveTheory : isclose(waveTheory[k], wave_peak, tolerance)}
    IN  IF idx_array = {}
        THEN IF (\A r \in DOMAIN st.rows : st.rows[r].label # unknownLineLabel(wave_peak))
                /\ a.detect_check
             THEN [st EXCEPT !.rows = Append(@,
                      [label |-> unknownLineLabel(wave_peak),
                       w |-> <<NanCell, NanCell, wave_peak - 5 * WaveUnit,
                               wave_peak + 5 * WaveUnit, NanCell, NanCell>>,
                       wavelength |-> wave_peak,
                       observation |-> "not_identified"])]
             ELSE st
        ELSE LET row_index == {r \in DOMAIN st.rows :
                                 st.rows[r].wavelength = waveTheory[SetMin(idx_array)]}
                 theoLineLabel == st.rows[SetMin(row_index)].label
                 blended_check == Contains(theoLineLabel, <<"_", "b">>)
                 minSeparation == IF blended_check THEN 4 ELSE 2
                 emission_check == a.line_type = "emission"
                 detected == [r \in DOMAIN st.rows |->
                                IF r \in row_index
                                THEN [st.rows[r] EXCEPT !.observation = "detected"]
                                ELSE st.rows[r]]
             IN  IF a.width_mode = "auto" /\ ~blended_check
                 THEN The({ The({
                        IF idx_min.raised # "None" \/ idx_max.raised # "None"
                        THEN [rows |-> detected, raised |-> "IndexError"]
                        ELSE [rows |-> [r \in DOMAIN detected |->
                                  IF r \in row_index
                                  THEN [detected[r] EXCEPT
                                          !.w[3] = PyItem(a.wave_rest, idx_min.i),
                                          !.w[4] = PyItem(a.wave_rest, idx_max.i)]
                                  ELSE detected[r]],
                              raised |-> "None"] :
                        idx_max \in {compute_line_width(idx_peak, a.flux, 1, minSeparation,
                                                        emission_check)} }) :
                        idx_min \in {compute_line_width(idx_peak, a.flux, 0 - 1,
                                                        minSeparation, emission_check)} })
                 ELSE [st EXCEPT !.rows = detected]

\* lines 433-462: for i in np.arange(wave_peaks.size)
RECURSIVE MatchPeaks(_, _, _, _, _)
MatchPeaks(st, waveTheory, idcsLinePeak, tolerance, a) ==
    IF idcsLinePeak = <<>> \/ st.raised # "None" THEN st
    ELSE The({ MatchPeaks(st2, waveTheory, Tail(idcsLinePeak), tolerance, a) :
               st2 \in {MatchPeak(st, waveTheory, Head(idcsLinePeak), tolerance, a)} })

PeaksOutput(raised, columns, rows) == [raised |-> raised, columns |-> columns, rows |-> rows]

\* lines 464-476: drop the rows not detected, sort by wavelength, drop the
\* scratch columns
DetectedSorted(rows) ==
    The({ The({ [k \in DOMAIN order |-> Row(kept[order[k]].label, kept[order[k]].w)] :
                order \in {ArgSort([r \in DOMAIN kept |-> kept[r].wavelength])} }) :
          kept \in {SelectRows(rows, [r \in DOMAIN rows |->
                                        rows[r].observation # "not detected"])} })

\* label_peaks(peak_table, mask_df, line_type, width_tol, width_mode,
\* detect_check) on the spectrum wave_rest, flux: lines 409-476
label_peaks(a) ==
    IF Len(a.peak_table) = 0 THEN PeaksOutput("None", a.mask_df.columns, <<>>)
    ELSE The({ The({
        IF \E k \in DOMAIN idcsLinePeak : ~InRange(a.wave_rest, idcsLinePeak[k])
        THEN PeaksOutput("IndexError", {}, <<>>)
        ELSE IF ~ld.ok THEN PeaksOutput("AssertionError", {}, <<>>)
        ELSE IF Len(ld.wave) # Len(a.mask_df.rows) THEN PeaksOutput("ValueError", {}, <<>>)
        ELSE The({
               IF st.raised # "None" THEN PeaksOutput(st.raised, {}, <<>>)
               ELSE PeaksOutput("None", a.mask_df.columns, DetectedSorted(st.rows)) :
               st \in {MatchPeaks(
                         [rows |-> [r \in DOMAIN a.mask_df.rows |->
                                      [label |-> a.mask_df.rows[r].label,
                                       w |-> a.mask_df.rows[r].w,
                                       wavelength |-> ld.wave[r] * WaveUnit,
                                       observation |-> "not detected"]],
                          raised |-> "None"],
                         [k \in DOMAIN ld.wave |-> ld.wave[k] * WaveUnit],
                         idcsLinePeak,
                         MeanDiff(a.wave_rest) * a.width_tol,
                         a)} }) :
        ld \in {label_decomposition(Labels(a.mask_df.rows))} }) :
        idcsLinePeak \in {SelectRows(
                            [k \in DOMAIN a.peak_table |-> a.peak_table[k].line_center_index],
                            [k \in DOMAIN a.peak_table |->
                                a.peak_table[k].line_type = a.line_type])} })

(***************************************************************************)
(* The calls of label_peaks that are checked: spectra of NPix pixels with  *)
(* a constant step around 5007 Angstrom.                                   *)
(***************************************************************************)
L_He1_5016A == <<"H", "e", "1", "_", "5", "0", "1", "6", "A">>

\* the sampling steps: 0.01 to 1 Angstrom
PixelSteps == {1, 2, 5, 10, 50, 100}

\* self.wave_rest: the third pixel lies at 5007 Angstrom
Grid(step) == [j \in 1..NPix |-> 5007 * WaveUnit + (j - 3) * step]

\* self.flux: a line profile, and a flat spectrum
Fluxes == { [j \in 1..NPix |-> IF j = 12 THEN 5 ELSE IF j \in {11, 13} THEN 3 ELSE 1],
            [j \in 1..NPix |-> 1] }

\* line_center_index of the features the finder reports
PeakIndices == {2, 11, 13}

PeakRows == [line_type : {"emission", "absorption"}, line_center_index : PeakIndices]

PeakTables == {<<>>} \cup {<<x>> : x \in PeakRows} \cup {<<x, y>> : x, y \in PeakRows}

O3Row == Row(L_O3_5007A, <<499000, 499500, 500200, 501200, 502000, 502500>>)
He1Row == Row(L_He1_5016A, <<501290, 501400, 501500, 501700, 502600, 502700>>)

MaskTables == { [columns |-> {"w"}, rows |-> rows] :
                rows \in {<<O3Row>>, <<O3Row, He1Row>>, <<He1Row, O3Row>>} }

PeaksCalls ==
    [wave_rest : {Grid(step) : step \in PixelSteps},
     flux : Fluxes,
     peak_table : PeakTables,
     mask_df : MaskTables,
     line_type : {"emission", "absorption"},
     width_tol : {5, 10},
     width_mode : {"auto", "fixed"},
     detect_check : BOOLEAN]

IdlePeaks ==
    /\ p_in = [wave_rest |-> <<>>]
    /\ p_out = [done |-> FALSE]

StartPeaks ==
    /\ p_in \in PeaksCalls
    /\ p_out = [done |-> FALSE]

\* the call: its return value or exception, and the mask_df object after
\* it (line 413 works on a copy)
LabelPeaks ==
    /\ ~p_out.done
    /\ p_out' = [done |-> TRUE, out |-> label_peaks(p_in), mask_after |-> p_in.mask_df]
    /\ UNCHANGED p_in
    /\ UNCHANGED notPeaks

NextPeaks == LabelPeaks

(***************************************************************************)
(* Properties of label_peaks.                                              *)
(***************************************************************************)
\* the matching tolerance: mean rest-frame step times width_tol
Tolerance == MeanDiff(p_in.wave_rest) * p_in.width_tol

\* the rest wavelengths of the peaks of the requested line_type
RequestedPeaks ==
    { PyItem(p_in.wave_rest, p_in.peak_table[k].line_center_index) :
      k \in {k \in DOMAIN p_in.peak_table : p_in.peak_table[k].line_type = p_in.line_type} }

\* C18: with one mask line at 5007.0, a peak at 5007.0 + 0.9 x tolerance
\* marks the row as detected and the row is returned; a peak at 5007.0 +
\* 1.1 x tolerance does not match and, detect_check off, gives no row.
C18_PeakTolerance ==
    (/\ p_out.done
     /\ p_out.out.raised = "None"
     /\ Labels(p_in.mask_df.rows) = <<L_O3_5007A>>
     /\ ~p_in.detect_check
     /\ Tolerance > 0)
    => \A peak \in RequestedPeaks :
          /\ (Cardinality(RequestedPeaks) = 1
                /\ 10 * (peak - 5007 * WaveUnit) = 9 * Tolerance)
             => Labels(p_out.out.rows) = <<L_O3_5007A>>
          /\ (Cardinality(RequestedPeaks) = 1
                /\ 10 * (peak - 5007 * WaveUnit) = 11 * Tolerance)
             => p_out.out.rows = <<>>

\* the rows of the mask within the tolerance of some requested peak, by
\* ascending theoretical wavelength
RowsWithinTolerance ==
    LET rows == p_in.mask_df.rows
        theory == [r \in DOMAIN rows |->
                      IF rows[r].label = L_O3_5007A THEN 5007 * WaveUnit
                      ELSE 5016 * WaveUnit]
        near == [r \in DOMAIN rows |->
                    \E peak \in RequestedPeaks : Abs(theory[r] - peak) <= Tolerance]
        kept == SelectRows(rows, near)
        keptTheory == SelectRows(theory, near)
    IN  Take(kept, ArgSort(keptTheory))

\* C19: with detect_check off and width_mode 'fixed', label_peaks returns
\* exactly the mask rows that have a peak of the requested line_type within
\* the tolerance, by ascending theoretical wavelength, with their columns
\* unchanged and without scratch columns; the input mask is not modified;
\* an empty peak table gives an empty table with the columns of the mask.
C19_ExactlyMatchedRows ==
    (p_out.done /\ ~p_in.detect_check /\ p_in.width_mode = "fixed")
    => /\ p_out.out.raised = "None"
       /\ p_out.out.columns = p_in.mask_df.columns
       /\ p_out.out.rows = RowsWithinTolerance
       /\ p_out.mask_after = p_in.mask_df
       /\ p_in.peak_table = <<>> => p_out.out.rows = <<>>

(***************************************************************************)
(* BandsInspection: the redshift slider of bands() and the redshift log.   *)
(* Redshifts and wavelengths are exact fractions.  The cells of the window *)
(* are redrawn by the handler and hold no state of their own.              *)
(***************************************************************************)
MaxZsSessions == 2    \* bands() calls with a redshift log in one run
MaxZSlide == 1        \* the redshift slider is moved within -MaxZSlide..MaxZSlide

RatInt(n) == Rat(n, 1)
RatAdd(a, b) == Rat(a.num * b.den + b.num * a.den, a.den * b.den)
RatSub(a, b) == Rat(a.num * b.den - b.num * a.den, a.den * b.den)
RatMul(a, b) == Rat(a.num * b.num, a.den * b.den)
RatDiv(a, b) == IF b.num > 0 THEN Rat(a.num * b.den, a.den * b.num)
                ELSE Rat(0 - a.num * b.den, 0 - a.den * b.num)
RatAbs(a) == [a EXCEPT !.num = Abs(a.num)]

\* n / d rounded to a whole number, a tie going to the even one (d > 0)
RoundHalfEven(n, d) ==
    LET q == n \div d
        r == n - q * d
    IN  IF 2 * r < d THEN q
        ELSE IF 2 * r > d THEN q + 1
        ELSE IF q % 2 = 0 THEN q ELSE q + 1

TextDecimals == 1000000

\* DataFrame.to_string() renders a float with six decimal places, and
\* load_log reads that text back
to_string_redshift(z) ==
    IF z.nan THEN z ELSE Rat(RoundHalfEven(z.num * TextDecimals, z.den), TextDecimals)

\* self._spec.wave, the observed wavelengths of the two pixels
SpecWave == <<RatInt(2), RatInt(4)>>

\* self._spec.wave_rest for a redshift: wave / (1 + z)
wave_rest_of(z) ==
    [i \in DOMAIN SpecWave |-> RatDiv(SpecWave[i], RatAdd(RatInt(1), z))]

\* line 335 for two pixels: np.median(np.diff(wave_rest))
inter_mask_of(z) ==
    The({ RatSub(wr[2], wr[1]) : wr \in {wave_rest_of(z)} })

\* line 355: np.abs(redshift - (wave / (wave_rest + inter_mask) - 1).mean())
inter_z_of(z) ==
    The({ The({ RatAbs(RatSub(z, RatDiv(RatAdd(t[1], t[2]), RatInt(2)))) :
                t \in {[i \in DOMAIN SpecWave |->
                          RatSub(RatDiv(SpecWave[i], RatAdd(wr[i], inter_mask_of(z))),
                                 RatInt(1))]} }) :
          wr \in {wave_rest_of(z)} })

\* the redshifts of the spectrum when the object is made
SpecRedshifts == {RatInt(0), Rat(1, 4), Rat(1, 2)}

\* the file at redshift_log before the first call: none, one with the
\* column and a row of the object, one with another column only
RedshiftLogFiles ==
    { [exists |-> FALSE, column |-> FALSE, val |-> NaN],
      [exists |-> TRUE, column |-> TRUE, val |-> Rat(1, 2)],
      [exists |-> TRUE, column |-> FALSE, val |-> NaN] }

ZsEvent(op, raised) == [op |-> op, raised |-> raised]

IdleZs ==
    /\ zs_session = FALSE
    /\ zs_slider = <<>>
    /\ spec_redshift = RatInt(0)
    /\ z_orig = NaN
    /\ inter_z = NaN
    /\ z_df = NaN
    /\ zs_file = [exists |-> FALSE, column |-> FALSE, val |-> NaN]
    /\ zs_start = RatInt(0)
    /\ zs_ev = ZsEvent("init", FALSE)
    /\ nZsSessions = 0

\* a spectrum with its redshift, its check object, and the file
StartZs ==
    /\ zs_session = FALSE
    /\ zs_slider = <<>>
    /\ spec_redshift \in SpecRedshifts
    /\ z_orig = NaN
    /\ inter_z = NaN
    /\ z_df = NaN
    /\ zs_file \in RedshiftLogFiles
    /\ zs_start = spec_redshift
    /\ zs_ev = ZsEvent("init", FALSE)
    /\ nZsSessions = 0

\* bands(input_mask, redshift_log=..., object_ref=...), lines 339-358; the
\* arguments say whether redshift_log and object_ref are given
BandsRedshiftLog(redshift_log, object_ref) ==
    /\ ~zs_session
    /\ nZsSessions < MaxZsSessions
    /\ nZsSessions' = nZsSessions + 1
    /\ zs_start' = spec_redshift
    /\ IF ~redshift_log
       THEN /\ zs_session' = TRUE
            /\ zs_slider' = <<>>
            /\ zs_ev' = ZsEvent("bands", FALSE)
            /\ UNCHANGED <<z_orig, inter_z, z_df, zs_file>>
       ELSE IF ~object_ref \/ (zs_file.exists /\ ~zs_file.column)
       THEN /\ zs_ev' = ZsEvent("bands", TRUE)
            /\ UNCHANGED <<zs_session, zs_slider, z_orig, inter_z, z_df, zs_file>>
       ELSE /\ z_df' = spec_redshift
            /\ zs_file' = [exists |-> TRUE, column |-> TRUE,
                           val |-> to_string_redshift(spec_redshift)]
            /\ z_orig' = spec_redshift
            /\ inter_z' = inter_z_of(spec_redshift)
            /\ zs_slider' = <<0>>
            /\ zs_session' = TRUE
            /\ zs_ev' = ZsEvent("bands", FALSE)
    /\ UNCHANGED spec_redshift
    /\ UNCHANGED notZs

\* _on_z_slider_MI(val), lines 508-524; udpate_redshift(z_new) stores the
\* redshift in the spectrum, which derives wave_rest from it
ZSlider(val) ==
    /\ zs_session
    /\ zs_slider # <<>>
    /\ val # zs_slider[1]
    /\ zs_slider' = <<val>>
    /\ \E z_new \in {RatAdd(z_orig, RatMul(inter_z, RatInt(val)))} :
          /\ spec_redshift' = z_new
          /\ z_df' = z_new
          /\ zs_file' = [exists |-> TRUE, column |-> TRUE, val |-> to_string_redshift(z_new)]
    /\ zs_ev' = ZsEvent("z_slider", FALSE)
    /\ UNCHANGED <<zs_session, z_orig, inter_z, zs_start, nZsSessions>>
    /\ UNCHANGED notZs

\* the window is closed and bands() returns
CloseZs ==
    /\ zs_session
    /\ zs_session' = FALSE
    /\ zs_ev' = ZsEvent("close", FALSE)
    /\ UNCHANGED <<zs_slider, spec_redshift, z_orig, inter_z, z_df, zs_file, zs_start,
                   nZsSessions>>
    /\ UNCHANGED notZs

NextZs ==
    \/ \E redshift_log, object_ref \in BOOLEAN : BandsRedshiftLog(redshift_log, object_ref)
    \/ \E val \in (0 - MaxZSlide)..MaxZSlide : ZSlider(val)
    \/ CloseZs

\* the working redshift is the redshift at the start of the session plus the
\* slider value times the step computed from it
ZsOnOffset ==
    spec_redshift = RatAdd(zs_start, RatMul(inter_z_of(zs_start), RatInt(zs_slider[1])))

\* C24: in a session started with redshift_log and object_ref, right after
\* start-up and after every move of the redshift slider to v, the working
\* redshift is the redshift at session start plus v times the step computed
\* at start-up, and the entry of the object in the redshift log on disk
\* equals the working redshift.
C24_RedshiftSliderAndLog ==
    (zs_session /\ zs_slider # <<>> /\ zs_ev.op \in {"bands", "z_slider"}) =>
        /\ ZsOnOffset
        /\ zs_file.exists /\ zs_file.column /\ zs_file.val = spec_redshift

(***************************************************************************)
(* check_previous_mask called on its own: a saved log or none, and an      *)
(* input mask, of up to MaxMaskRows rows each.                             *)
(***************************************************************************)
MaxMaskRows == 2      \* rows of the saved log and of the input mask

\* a band inside the spectrum, one whose red continuum lies beyond its end
\* and one that lies beyond it altogether
MaskBands == {<<20, 40, 60, 100, 120, 140>>, <<230, 250, 270, 290, 310, 330>>,
              <<360, 370, 390, 410, 430, 440>>}

MaskLabels == {H1_8A, H1_8A \o SufB, H1_8A \o SufM, O3_20A, N2_40A}

MaskRows == { Row(label, w) : label \in MaskLabels, w \in MaskBands }

\* the tables with pairwise distinct labels
MaskTablesUpTo(n) ==
    { t \in UNION { [1..k -> MaskRows] : k \in 0..n } :
        \A i, j \in DOMAIN t : i # j => t[i].label # t[j].label }

MaskCalls ==
    [input_mask : MaskTablesUpTo(MaxMaskRows),
     user_mask : {[given |-> FALSE, rows |-> <<>>]}
                    \cup {[given |-> TRUE, rows |-> t] : t \in MaskTablesUpTo(MaxMaskRows)},
     wave_rest : {WaveRest}]

IdleMask ==
    /\ m_in = [input_mask |-> <<>>]
    /\ m_out = [done |-> FALSE]

StartMask ==
    /\ m_in \in MaskCalls
    /\ m_out = [done |-> FALSE]

\* the call and what it returns
CheckPreviousMask ==
    /\ ~m_out.done
    /\ m_out' = [done |-> TRUE,
                 out |-> check_previous_mask(m_in.input_mask, m_in.user_mask,
                                             m_in.wave_rest)]
    /\ UNCHANGED m_in
    /\ UNCHANGED notMask

NextMask == CheckPreviousMask

\* the row of a table that carries a label
RowOf(table, label) == CHOOSE r \in Range(table) : r.label = label

\* the stems of the _b and _m labels of a table
CombLines(table) ==
    { DropLast2(r.label) : r \in {x \in Range(table) :
                                     Last2(x.label) = SufB \/ Last2(x.label) = SufM} }

\* C23: with a saved log, a returned line is active iff it comes from the
\* saved log; a row of input_mask is there (inactive) only when its label is
\* neither a saved label nor the stem of a saved _b/_m label; the rows are
\* in ascending wavelength order; every flag is still on its own row after
\* the sort and the wavelength-range filter.  Without a saved log every
\* returned line is inactive.
C23_MergedMask ==
    (m_out.done /\ m_out.out.ok) =>
        LET out    == m_out.out
            saved  == m_in.user_mask.rows
            slab   == Range(Labels(saved))
            ilab   == Range(Labels(m_in.input_mask))
        IN  /\ Len(out.active) = Len(out.log)
            /\ IF m_in.user_mask.given
               THEN /\ \A i \in DOMAIN out.log :
                          /\ out.active[i] <=> out.log[i].label \in slab
                          /\ out.active[i] =>
                                out.log[i].w = RowOf(saved, out.log[i].label).w
                          /\ ~out.active[i] =>
                                /\ out.log[i].label \in ilab \ (slab \cup CombLines(saved))
                                /\ out.log[i].w
                                      = RowOf(m_in.input_mask, out.log[i].label).w
                    /\ \A i, j \in DOMAIN out.log :
                          i < j => out.log[i].wavelength <= out.log[j].wavelength
               ELSE \A i \in DOMAIN out.log : ~out.active[i]

(***************************************************************************)
(* compute_line_width run one test of its while loop at a time, with the   *)
(* positions of spec_flux it has read.                                     *)
(***************************************************************************)
MaxFluxLen == 4       \* longest flux array
MaxFluxLevel == 2     \* flux values are 0..MaxFluxLevel

FluxArrays == UNION { [1..n -> 0..MaxFluxLevel] : n \in 1..MaxFluxLen }

\* min_delta: none, and the value label_peaks passes for a single line
WidthCalls ==
    { a \in [idx_peak : 0..(MaxFluxLen - 1), spec_flux : FluxArrays, delta_i : {0 - 1, 1},
             min_delta : {0, 2}, emission_check : BOOLEAN] :
      a.idx_peak < Len(a.spec_flux) }

StartWidth ==
    /\ p_in \in WidthCalls
    /\ p_out = [done |-> FALSE, pc |-> "call"]

\* line 199: i = idx_peak
WidthCall ==
    /\ p_out.pc = "call"
    /\ p_out' = [done |-> FALSE, pc |-> "while", i |-> p_in.idx_peak, reads |-> {},
                 raised |-> "None"]
    /\ UNCHANGED p_in
    /\ UNCHANGED notPeaks

\* lines 201-206: one test of the while condition, and the body when it
\* holds; spec_flux[i] is read before spec_flux[i + delta_i]
WidthTest ==
    /\ p_out.pc = "while"
    /\ \E i \in {p_out.i}, nxt \in {p_out.i + p_in.delta_i} :
          IF ~InRange(p_in.spec_flux, i)
          THEN p_out' = [p_out EXCEPT !.done = TRUE, !.pc = "done",
                                      !.raised = "IndexError"]
          ELSE IF ~InRange(p_in.spec_flux, nxt)
          THEN p_out' = [p_out EXCEPT !.done = TRUE, !.pc = "done",
                                      !.raised = "IndexError", !.reads = @ \cup {i}]
          ELSE IF \/ IF p_in.emission_check
                     THEN PyItem(p_in.spec_flux, i) > PyItem(p_in.spec_flux, nxt)
                     ELSE PyItem(p_in.spec_flux, i) < PyItem(p_in.spec_flux, nxt)
                  \/ Abs(p_in.idx_peak - nxt) <= p_in.min_delta
          THEN p_out' = [p_out EXCEPT !.i = nxt, !.reads = @ \cup {i, nxt}]
          ELSE p_out' = [p_out EXCEPT !.done = TRUE, !.pc = "done",
                                      !.reads = @ \cup {i, nxt}]
    /\ UNCHANGED p_in
    /\ UNCHANGED notPeaks

NextWidth == WidthCall \/ WidthTest

\* C29: for every flux array of length N, every peak index in 0..N-1 and
\* delta_i in {-1, +1}, compute_line_width only reads flux at positions
\* 0..N-1, neither a negative position that wraps to the end of the array
\* nor a position >= N, and returns an index in 0..N-1.
C29_WidthStaysInArray ==
    p_out.pc \in {"while", "done"} =>
        /\ p_out.reads \subseteq 0..(Len(p_in.spec_flux) - 1)
        /\ p_out.pc = "done" =>
              /\ p_out.raised = "None"
              /\ p_out.i \in 0..(Len(p_in.spec_flux) - 1)

\* the loop of compute_line_width comes to an end, by a return or by an
\* exception
WidthTerminates == <>(p_out.pc = "done")

\* the stepwise loop and the loop of label_peaks agree
WidthAgrees ==
    p_out.pc = "done" =>
        The({ r.raised = p_out.raised /\ (r.raised = "None" => r.i = p_out.i) :
              r \in {compute_line_width(p_in.idx_peak, p_in.spec_flux, p_in.delta_i,
                                        p_in.min_delta, p_in.emission_check)} })

(***************************************************************************)
(* Specifications: one per inspector, the others at rest.                  *)
(***************************************************************************)
IdleTools == IdleLog /\ IdleRoman /\ IdleDecomp /\ IdlePeaks /\ IdleMask /\ IdleZs
IdleEditors == IdleLabel /\ InitBands /\ InitRedshift /\ IdleCube /\ IdleCfg

InitLabelSpec == StartLabel /\ InitBands /\ InitRedshift /\ IdleCube /\ IdleCfg /\ IdleTools
SpecLabel == InitLabelSpec /\ [][NextLabel]_vars

InitBandsSpec == IdleLabel /\ InitBands /\ InitRedshift /\ IdleCube /\ IdleCfg /\ IdleTools
SpecBands == InitBandsSpec /\ [][NextBands]_vars

InitRedshiftSpec == IdleLabel /\ InitBands /\ InitRedshift /\ IdleCube /\ IdleCfg /\ IdleTools
SpecRedshift == InitRedshiftSpec /\ [][NextRedshift]_vars

InitCubeSpec == IdleLabel /\ InitBands /\ InitRedshift /\ InitCube /\ IdleCfg /\ IdleTools
SpecCube == InitCubeSpec /\ [][NextCube]_vars

InitCfgSpec == IdleLabel /\ InitBands /\ InitRedshift /\ IdleCube /\ StartCfg /\ IdleTools
SpecCfg == InitCfgSpec /\ [][NextCfg]_vars

InitSaveCfgSpec == IdleLabel /\ InitBands /\ InitRedshift /\ IdleCube /\ StartSaveCfg /\ IdleTools
SpecSaveCfg == InitSaveCfgSpec /\ [][NextSaveCfg]_vars

InitLogSpec == IdleEditors /\ StartLog /\ IdleRoman /\ IdleDecomp /\ IdlePeaks /\ IdleMask /\ IdleZs
SpecLog == InitLogSpec /\ [][NextLog]_vars

\* the interpreter runs the loop of int_to_roman to its end
InitRomanSpec == IdleEditors /\ IdleLog /\ StartRoman /\ IdleDecomp /\ IdlePeaks /\ IdleMask /\ IdleZs
SpecRoman == InitRomanSpec /\ [][NextRoman]_vars /\ WF_vars(NextRoman)

InitDecompSpec == IdleEditors /\ IdleLog /\ IdleRoman /\ StartDecomp /\ IdlePeaks /\ IdleMask /\ IdleZs
SpecDecomp == InitDecompSpec /\ [][NextDecomp]_vars

InitPeaksSpec == IdleEditors /\ IdleLog /\ IdleRoman /\ IdleDecomp /\ StartPeaks /\ IdleMask /\ IdleZs
SpecPeaks == InitPeaksSpec /\ [][NextPeaks]_vars

\* the interpreter runs the loop of compute_line_width to its end
InitWidthSpec == IdleEditors /\ IdleLog /\ IdleRoman /\ IdleDecomp /\ StartWidth /\ IdleMask /\ IdleZs
SpecWidth == InitWidthSpec /\ [][NextWidth]_vars /\ WF_vars(NextWidth)

InitMaskSpec == IdleEditors /\ IdleLog /\ IdleRoman /\ IdleDecomp /\ IdlePeaks /\ StartMask /\ IdleZs
SpecMask == InitMaskSpec /\ [][NextMask]_vars

InitZsSpec == IdleEditors /\ IdleLog /\ IdleRoman /\ IdleDecomp /\ IdlePeaks /\ IdleMask /\ StartZs
SpecZs == InitZsSpec /\ [][NextZs]_vars

=============================================================================
